---- MODULE Spec2Model ----
(***************************************************************************)
(* A model of decomp-toolkit's split planning (src/obj/split.rs) and of    *)
(* its symbols/splits configuration reader and writer                      *)
(* (src/util/config.rs).                                                   *)
(*                                                                         *)
(* Conventions.                                                            *)
(*   - Option<T> is a sequence of length <= 1: None is <<>>, Some(x) <<x>>.*)
(*   - Names (String) are sequences of one-character strings, so that      *)
(*     format!, ends_with and trim_start_matches are computed.             *)
(*   - Vec indices are 1-based here and 0-based in the source.             *)
(*   - A section's data is held as its big-endian 32-bit words.            *)
(***************************************************************************)
EXTENDS Integers, Sequences, FiniteSets, TLC

VARIABLES
    obj,      \* the image (ObjInfo): sections, symbols, splits, link_order, blocked_ranges
    pc,       \* position of the driver in the operation being run
    loc,      \* local variables of the operation being run
    res,      \* result of the operation: [ok, err] and what it returned
    objects,  \* split_obj: the output objects under construction
    text      \* config writer/reader: the line written and the image read back

vars == <<obj, pc, loc, res, objects, text>>

-----------------------------------------------------------------------------
(* Option and small helpers *)

None == <<>>
Some(x) == <<x>>
IsSome(o) == o # <<>>
Unwrap(o) == o[1]

Min(a, b) == IF a < b THEN a ELSE b

RECURSIVE SortedSeq(_)
SortedSeq(S) ==
    IF S = {} THEN <<>>
    ELSE LET m == CHOOSE x \in S : \A y \in S : x <= y
         IN  <<m>> \o SortedSeq(S \ {m})

RECURSIVE Flatten(_)
Flatten(ss) == IF ss = <<>> THEN <<>> ELSE Head(ss) \o Flatten(Tail(ss))

SeqToSet(s) == {s[i] : i \in 1..Len(s)}

-----------------------------------------------------------------------------
(* Strings *)

HexChar == <<"0","1","2","3","4","5","6","7","8","9","A","B","C","D","E","F">>

RECURSIVE HexDigits(_)
HexDigits(n) ==
    IF n < 16 THEN <<HexChar[n + 1]>>
    ELSE HexDigits(n \div 16) \o <<HexChar[(n % 16) + 1]>>

RECURSIVE ZeroPad(_, _)
ZeroPad(s, w) == IF Len(s) >= w THEN s ELSE ZeroPad(<<"0">> \o s, w)

\* format!("{:08X}", n)
FormatHex08(n) == ZeroPad(HexDigits(n), 8)

\* str::ends_with
EndsWith(s, suffix) ==
    /\ Len(s) >= Len(suffix)
    /\ SubSeq(s, Len(s) - Len(suffix) + 1, Len(s)) = suffix

\* str::trim_start_matches('.')
RECURSIVE TrimStartDot(_)
TrimStartDot(s) ==
    IF s # <<>> /\ Head(s) = "." THEN TrimStartDot(Tail(s)) ELSE s

\* the names of sections, symbols and units the code and the images explored use
Name ==
    [text |-> <<".","t","e","x","t">>,
     data |-> <<".","d","a","t","a">>,
     bss |-> <<".","b","s","s">>,
     ctors |-> <<".","c","t","o","r","s">>,
     dtors |-> <<".","d","t","o","r","s">>,
     extab |-> <<"e","x","t","a","b">>,
     extabindex |-> <<"e","x","t","a","b","i","n","d","e","x">>,
     eti_init_info |-> <<"_","e","t","i","_","i","n","i","t","_","i","n","f","o">>,
     rom_copy_info |-> <<"_","r","o","m","_","c","o","p","y","_","i","n","f","o">>,
     bss_init_info |-> <<"_","b","s","s","_","i","n","i","t","_","i","n","f","o">>,
     ctors99 |-> <<"_","c","t","o","r","s","$","9","9">>,
     dtors99 |-> <<"_","d","t","o","r","s","$","9","9">>,
     foo |-> <<"f","o","o">>,
     bar |-> <<"b","a","r">>,
     U |-> <<"U">>,
     V |-> <<"V">>,
     W |-> <<"W">>,
     unknown |-> <<"u","n","k","n","o","w","n">>,
     e |-> <<"e">>,
     i |-> <<"i">>,
     sbss |-> <<".","s","b","s","s">>,
     pad |-> <<"p","a","d">>,
     baz |-> <<"b","a","z">>,
     f_bss |-> <<"_","f","_","b","s","s">>,
     qux |-> <<"q","u","x">>]

-----------------------------------------------------------------------------
(* The image model (ObjInfo and its tables) *)

\* ObjSymbol { ..Default::default() }
DefaultSymbol ==
    [name |-> <<>>, demangled_name |-> None, address |-> 0, section |-> None,
     size |-> 0, size_known |-> FALSE, flags |-> {}, kind |-> "Unknown",
     align |-> None, data_kind |-> "Unknown"]

\* ObjSection::contains
SectionContains(s, addr) == s.address <= addr /\ addr < s.address + s.size

\* ObjInfo::section_at: index of the first section containing addr, or None
section_at(o, addr) ==
    LET hits == {i \in 1..Len(o.sections) : SectionContains(o.sections[i], addr)}
    IN  IF hits = {} THEN None
        ELSE Some(CHOOSE i \in hits : \A j \in hits : i <= j)

\* ObjInfo::splits_for_range(lo..hi): <<addr, split>> in address order, the
\* splits of one address in their Vec order
splits_for_range(o, lo, hi) ==
    LET keys == SortedSeq({a \in DOMAIN o.splits : lo <= a /\ a < hi})
    IN  Flatten([k \in 1..Len(keys) |->
                    [i \in 1..Len(o.splits[keys[k]]) |-> <<keys[k], o.splits[keys[k]][i]>>]])

\* ObjInfo::splits_for_range(..): every split, up to the highest address in use
all_splits(o) ==
    LET ends == {o.sections[i].address + o.sections[i].size : i \in 1..Len(o.sections)}
                  \cup {a + 1 : a \in DOMAIN o.splits} \cup {0}
    IN  splits_for_range(o, 0, CHOOSE m \in ends : \A e \in ends : e <= m)

\* ObjInfo::split_for: the last split starting at or before address, if it
\* is open-ended or ends after address
split_for(o, address) ==
    LET upto == splits_for_range(o, 0, address + 1)
    IN  IF upto = <<>> THEN None
        ELSE LET last == upto[Len(upto)]
             IN  IF last[2].end = 0 \/ last[2].end > address THEN Some(last) ELSE None

\* ObjInfo::add_split: the split is appended to the Vec kept for its address
add_split(o, addr, split) ==
    [o EXCEPT !.splits =
        IF addr \in DOMAIN o.splits
        THEN [o.splits EXCEPT ![addr] = Append(@, split)]
        ELSE [a \in DOMAIN o.splits \cup {addr} |->
                 IF a = addr THEN <<split>> ELSE o.splits[a]]]

\* ObjSymbols::for_range(lo..hi): symbol indices by address, equal addresses
\* in insertion order
symbols_for_range(o, lo, hi) ==
    LET idx == {i \in 1..Len(o.symbols) :
                    lo <= o.symbols[i].address /\ o.symbols[i].address < hi}
        key(i) == o.symbols[i].address * (Len(o.symbols) + 1) + i
        keys == SortedSeq({key(i) : i \in idx})
    IN  [k \in 1..Len(keys) |-> keys[k] % (Len(o.symbols) + 1)]

\* ObjSymbols::kind_at_address: [err, sym]; more than one symbol of the kind
\* at the address is an error
kind_at_address(o, addr, kind) ==
    LET hits == {i \in 1..Len(o.symbols) :
                    o.symbols[i].address = addr /\ o.symbols[i].kind = kind}
    IN  IF Cardinality(hits) > 1 THEN [err |-> TRUE, sym |-> None]
        ELSE IF hits = {} THEN [err |-> FALSE, sym |-> None]
        ELSE [err |-> FALSE, sym |-> Some(CHOOSE i \in hits : TRUE)]

-----------------------------------------------------------------------------
(* split.rs: linker-generated names and the end of a section *)

is_linker_generated_object(name) ==
    name \in {Name.eti_init_info, Name.rom_copy_info, Name.bss_init_info,
              Name.ctors99, Name.dtors99}

\* the last Object symbol with known positive size in [section_start, section_end)
LastSizedObject(o, section_start, section_end) ==
    LET r == symbols_for_range(o, section_start, section_end)
        f == SelectSeq(r, LAMBDA i : /\ o.symbols[i].kind = "Object"
                                      /\ o.symbols[i].size_known
                                      /\ o.symbols[i].size > 0)
    IN  IF f = <<>> THEN None ELSE Some(f[Len(f)])

\* EndLoop that lowers the end once at most
EndLoop_Once(o, section_start, section_end) ==
    LET last == LastSizedObject(o, section_start, section_end)
    IN  IF IsSome(last) /\ is_linker_generated_object(o.symbols[Unwrap(last)].name)
        THEN o.symbols[Unwrap(last)].address
        ELSE section_end

RECURSIVE EndLoop(_, _, _)
EndLoop(o, section_start, section_end) ==
    LET last == LastSizedObject(o, section_start, section_end)
    IN  IF IsSome(last) /\ is_linker_generated_object(o.symbols[Unwrap(last)].name)
        THEN EndLoop(o, section_start, o.symbols[Unwrap(last)].address)
        ELSE section_end

end_for_section(o, section_index) ==
    LET section == o.sections[section_index]
        section_start == section.address
        section_end == section.address + section.size
    IN  IF /\ section.name \in {Name.ctors, Name.dtors}
           /\ section.data[Len(section.data)] = 0
        THEN section_end - 4
        ELSE EndLoop(o, section_start, section_end)

-----------------------------------------------------------------------------
(* split.rs: create_gap_splits, one action per branch of its loop body *)

\* BTreeMap::insert
MapPut(m, k, v) == [x \in DOMAIN m \cup {k} |-> IF x = k THEN v ELSE m[x]]

EmptyMap == [x \in {} |-> 0]

\* GapUnitName with the section name as it is
GapUnitName_DotKept(current_address, section) ==
    FormatHex08(current_address) \o <<"_">> \o section.name

\* format!("{:08X}_{}", current_address, section.name.trim_start_matches('.'))
GapUnitName(current_address, section) ==
    FormatHex08(current_address) \o <<"_">> \o TrimStartDot(section.name)

\* the scan of the symbols of a gap for a repeated name: [err, end]
RECURSIVE GapDupScan(_, _, _, _, _)
GapDupScan(o, syms, section_idx, existing_symbols, new_split_end) ==
    IF syms = <<>> THEN [err |-> FALSE, end |-> new_split_end]
    ELSE LET symbol == o.symbols[Head(syms)]
         IN  IF symbol.section # Some(section_idx)
             THEN [err |-> TRUE, end |-> new_split_end]
             ELSE IF symbol.name \in existing_symbols
             THEN [err |-> FALSE, end |-> symbol.address]
             ELSE GapDupScan(o, Tail(syms), section_idx,
                             existing_symbols \cup {symbol.name}, new_split_end)

\* file_iter.peek(): (split_start, split_end)
GapPeek(l) ==
    IF l.file_iter # <<>>
    THEN <<Head(l.file_iter)[1], Head(l.file_iter)[2].end>>
    ELSE <<l.section_end, 0>>

Fail(msg) ==
    /\ pc' = "failed"
    /\ res' = [ok |-> FALSE, err |-> msg]

\* let mut new_splits = BTreeMap::new();
GapCall ==
    /\ pc = "gap_call"
    /\ loc' = [section_idx |-> 1, current_address |-> 0, section_end |-> 0,
               file_iter |-> <<>>, new_splits |-> EmptyMap]
    /\ pc' = "gap_for"
    /\ UNCHANGED <<obj, res, objects, text>>

\* for (section_idx, section) in obj.sections.iter().enumerate()
GapFor ==
    /\ pc = "gap_for"
    /\ loc.section_idx <= Len(obj.sections)
    /\ LET section == obj.sections[loc.section_idx]
           section_end == end_for_section(obj, loc.section_idx)
       IN  loc' = [loc EXCEPT !.current_address = section.address,
                              !.section_end = section_end,
                              !.file_iter = splits_for_range(obj, section.address, section_end)]
    /\ pc' = "gap_loop"
    /\ UNCHANGED <<obj, res, objects, text>>

\* if current_address >= section_end { break; }
GapBreak ==
    /\ pc = "gap_loop"
    /\ loc.current_address >= loc.section_end
    /\ loc' = [loc EXCEPT !.section_idx = @ + 1]
    /\ pc' = "gap_for"
    /\ UNCHANGED <<obj, res, objects, text>>

\* ensure!(split_start >= current_address, "Split ... overlaps with previous split")
GapOverlap ==
    /\ pc = "gap_loop"
    /\ loc.current_address < loc.section_end
    /\ GapPeek(loc)[1] < loc.current_address
    /\ Fail("overlap")
    /\ UNCHANGED <<obj, loc, objects, text>>

\* if split_start > current_address { ... continue; }
GapFill ==
    /\ pc = "gap_loop"
    /\ loc.current_address < loc.section_end
    /\ GapPeek(loc)[1] > loc.current_address
    /\ LET split_start == GapPeek(loc)[1]
           section == obj.sections[loc.section_idx]
           symbols == symbols_for_range(obj, loc.current_address, split_start)
           scan == GapDupScan(obj, symbols, loc.section_idx, {}, split_start)
       IN  IF scan.err
           THEN Fail("symbol section") /\ UNCHANGED loc
           ELSE /\ loc' = [loc EXCEPT
                      !.new_splits = MapPut(@, loc.current_address,
                          [unit |-> GapUnitName(loc.current_address, section),
                           end |-> scan.end, align |-> None, common |-> FALSE,
                           autogenerated |-> TRUE]),
                      !.current_address = scan.end]
                /\ UNCHANGED <<pc, res>>
    /\ UNCHANGED <<obj, objects, text>>

\* file_iter.next(); current_address = split_end or the start of the next split
GapAdvance ==
    /\ pc = "gap_loop"
    /\ loc.current_address < loc.section_end
    /\ GapPeek(loc)[1] = loc.current_address
    /\ LET split_end == GapPeek(loc)[2]
           rest == Tail(loc.file_iter)
           file_end == IF rest # <<>> THEN Min(Head(rest)[1], loc.section_end)
                       ELSE loc.section_end
       IN  loc' = [loc EXCEPT !.file_iter = rest,
                              !.current_address = IF split_end > 0 THEN split_end
                                                  ELSE file_end]
    /\ UNCHANGED <<obj, pc, res, objects, text>>

\* for (addr, split) in new_splits { obj.add_split(addr, split)?; }
RECURSIVE AddSplits(_, _, _)
AddSplits(o, new_splits, addrs) ==
    IF addrs = <<>> THEN o
    ELSE AddSplits(add_split(o, Head(addrs), new_splits[Head(addrs)]), new_splits, Tail(addrs))

\* CommitSplits with the map replaced by the new splits
CommitSplits_NewOnly(o, new_splits) ==
    [o EXCEPT !.splits = [a \in DOMAIN new_splits |-> <<new_splits[a]>>]]

CommitSplits(o, new_splits) == AddSplits(o, new_splits, SortedSeq(DOMAIN new_splits))

GapCommit ==
    /\ pc = "gap_for"
    /\ loc.section_idx > Len(obj.sections)
    /\ obj' = CommitSplits(obj, loc.new_splits)
    /\ pc' = "done"
    /\ res' = [ok |-> TRUE, err |-> ""]
    /\ UNCHANGED <<loc, objects, text>>

create_gap_splits ==
    GapCall \/ GapFor \/ GapBreak \/ GapOverlap \/ GapFill \/ GapAdvance \/ GapCommit

-----------------------------------------------------------------------------
(* The images create_gap_splits is run on *)

MaxGapSyms == 2

MkSection(name, kind, address, data) ==
    [name |-> name, kind |-> kind, address |-> address, size |-> 4 * Len(data),
     data |-> data, relocations |-> <<>>, file_offset |-> address]

MkSplit(unit, end, common) ==
    [unit |-> unit, end |-> end, align |-> None, common |-> common, autogenerated |-> FALSE]

MkSymbol(name, address, section, size, kind, flags) ==
    [DefaultSymbol EXCEPT !.name = name, !.address = address, !.section = section,
                          !.size = size, !.size_known = TRUE, !.kind = kind,
                          !.flags = flags]

MkImage(sections, symbols, splits) ==
    [kind |-> "Executable", sections |-> sections, symbols |-> symbols,
     splits |-> splits, link_order |-> <<>>, blocked_ranges |-> EmptyMap,
     named_sections |-> EmptyMap, mw_comment |-> None]

\* a split map from a choice, per address, of no split (-1) or of a split's end
SplitsOfEnds(f, unit) ==
    [a \in {x \in DOMAIN f : f[x] # -1} |-> <<MkSplit(unit, f[a], FALSE)>>]

GapSections(terminator) ==
    << MkSection(Name.data, "Data", 0, <<1, 1, 1>>),
       MkSection(Name.ctors, "Data", 12, <<1, terminator>>) >>

InitGap ==
    /\ \E terminator \in {0, 1} :
       \E f \in [{0, 4, 8, 12} -> {-1, 0, 4, 8, 12, 16, 20}] :
       \E n \in 0..MaxGapSyms :
       \E symbols \in [1..n -> {MkSymbol(nm, a, Some(1), 4, "Object", {"Global"}) :
                                  nm \in {Name.foo, Name.rom_copy_info}, a \in {0, 4, 8}}] :
          /\ \A a \in {0, 4, 8, 12} :
                f[a] \in {-1, 0, a + 4, IF a < 12 THEN Min(a + 8, 12) ELSE 20,
                         IF a < 12 THEN 12 ELSE 20}
          /\ obj = MkImage(GapSections(terminator), symbols, SplitsOfEnds(f, Name.U))
    /\ pc = "gap_call"
    /\ loc = [section_idx |-> 0]
    /\ res = [ok |-> FALSE, err |-> ""]
    /\ objects = <<>>
    /\ text = <<>>

SpecGap == InitGap /\ [][create_gap_splits]_vars

-----------------------------------------------------------------------------
(* Split intervals of a section *)

\* the splits that start inside section i, in address order
SectionSplits(o, i) ==
    splits_for_range(o, o.sections[i].address, o.sections[i].address + o.sections[i].size)

\* the end of the k-th split of section i: its own end, or (end = 0) the start
\* of the next split or the end of the section
IntervalEnd(o, i, k) ==
    LET ss == SectionSplits(o, i)
    IN  IF ss[k][2].end # 0 THEN ss[k][2].end
        ELSE IF k < Len(ss) THEN ss[k + 1][1]
        ELSE o.sections[i].address + o.sections[i].size

\* the splits of section i whose interval holds address x
Covering(o, i, x) ==
    {k \in 1..Len(SectionSplits(o, i)) :
        SectionSplits(o, i)[k][1] <= x /\ x < IntervalEnd(o, i, k)}

\* C1 (as claimed): after create_gap_splits succeeds, the split intervals of
\* every section cover exactly [section.address, section.address + section.size)
\* and no two of them overlap.
C1_CoverWholeSection ==
    (pc = "done" /\ res.ok) =>
        \A i \in 1..Len(obj.sections) :
            \A x \in 0..(obj.sections[Len(obj.sections)].address
                          + obj.sections[Len(obj.sections)].size + 8) :
                IF SectionContains(obj.sections[i], x)
                THEN Cardinality(Covering(obj, i, x)) = 1
                ELSE Covering(obj, i, x) = {}

-----------------------------------------------------------------------------
(* C18, C19: the splits create_gap_splits creates *)

\* the gap splits created so far
GapSplitsCreated == IF "new_splits" \in DOMAIN loc THEN loc.new_splits ELSE EmptyMap

\* two symbols of one name lie in [lo, hi)
RepeatedName(o, lo, hi) ==
    \E j, k \in 1..Len(o.symbols) :
        /\ j # k
        /\ o.symbols[j].name = o.symbols[k].name
        /\ lo <= o.symbols[j].address /\ o.symbols[j].address < hi
        /\ lo <= o.symbols[k].address /\ o.symbols[k].address < hi

\* C18 (as claimed): every gap split create_gap_splits creates covers at least
\* one address and holds no two symbols of one name; when the pass has
\* succeeded, each created gap split ends where the next split of the image
\* starts or where the walk of its section ends, and where it ends at a further
\* gap split of its section it was truncated: the symbol at that address
\* repeats a name of the gap split.  So the gap splits created for one gap tile
\* it.
C18_GapSplitsTile ==
    /\ \A a \in DOMAIN GapSplitsCreated :
          /\ GapSplitsCreated[a].end > a
          /\ ~RepeatedName(obj, a, GapSplitsCreated[a].end)
    /\ (pc = "done" /\ res.ok) =>
          \A a \in DOMAIN GapSplitsCreated :
              /\ \/ GapSplitsCreated[a].end \in DOMAIN obj.splits
                 \/ GapSplitsCreated[a].end = end_for_section(obj, Unwrap(section_at(obj, a)))
              /\ (/\ GapSplitsCreated[a].end \in DOMAIN GapSplitsCreated
                  /\ GapSplitsCreated[a].end < end_for_section(obj, Unwrap(section_at(obj, a))))
                 => RepeatedName(obj, a, GapSplitsCreated[a].end + 1)

\* C19 (as claimed): every gap split create_gap_splits creates is autogenerated
\* and its unit is named "{:08X}_{section name without leading '.'}" after the
\* start address of the section the gap lies in, so that the gap splits of one
\* section carry one unit name.
C19_GapUnitOfSection ==
    \A a \in DOMAIN GapSplitsCreated :
        /\ GapSplitsCreated[a].autogenerated
        /\ GapSplitsCreated[a].unit =
              ZeroPad(HexDigits(obj.sections[Unwrap(section_at(obj, a))].address), 8)
              \o <<"_">> \o TrimStartDot(obj.sections[Unwrap(section_at(obj, a))].name)

\* C19 (amended): every gap split create_gap_splits creates is autogenerated
\* and its unit is named "{:08X}_{section name without leading '.'}" after the
\* address the gap split itself starts at.
C19_GapUnitOfGap ==
    \A a \in DOMAIN GapSplitsCreated :
        /\ GapSplitsCreated[a].autogenerated
        /\ GapSplitsCreated[a].unit =
              ZeroPad(HexDigits(a), 8)
              \o <<"_">> \o TrimStartDot(obj.sections[Unwrap(section_at(obj, a))].name)

\* C19 witness: the pass succeeded and created two gap splits in .data, of
\* which one starts after the section's start, and one in .ctors
C19_Witness ==
    /\ pc = "done" /\ res.ok
    /\ \E a, b \in DOMAIN GapSplitsCreated :
          /\ a < b /\ b < 12
          /\ GapSplitsCreated[a].unit # GapSplitsCreated[b].unit
    /\ 12 \in DOMAIN GapSplitsCreated

-----------------------------------------------------------------------------
(* split.rs: update_common_splits *)

\* obj.sections.iter().find(|s| s.name == name): the first section of that name
find_section(o, name) ==
    LET hits == {i \in 1..Len(o.sections) : o.sections[i].name = name}
    IN  IF hits = {} THEN None
        ELSE Some(CHOOSE i \in hits : \A j \in hits : i <= j)

\* .find(|(_, split)| split.common).map(|(addr, _)| addr)
FirstCommon(ss) ==
    LET hits == {k \in 1..Len(ss) : ss[k][2].common}
    IN  IF hits = {} THEN None
        ELSE Some(ss[CHOOSE k \in hits : \A j \in hits : k <= j][1])

\* the start of the common BSS: None when there is no .bss or no common split in it
common_bss_start(o) ==
    LET bss == find_section(o, Name.bss)
    IN  IF bss = None THEN None
        ELSE LET bss_section == o.sections[Unwrap(bss)]
             IN  FirstCommon(splits_for_range(o, bss_section.address,
                                              bss_section.address + bss_section.size))

\* MarkCommon with only the splits at the first common address marked
MarkCommon_FirstOnly(o, from, to) ==
    [o EXCEPT !.splits =
        [a \in DOMAIN o.splits |->
            IF a = from
            THEN [i \in 1..Len(o.splits[a]) |-> [o.splits[a][i] EXCEPT !.common = TRUE]]
            ELSE o.splits[a]]]

\* for (addr, vec) in obj.splits.range_mut(common_bss_start..bss_section_end)
MarkCommon(o, from, to) ==
    [o EXCEPT !.splits =
        [a \in DOMAIN o.splits |->
            IF from <= a /\ a < to
            THEN [i \in 1..Len(o.splits[a]) |-> [o.splits[a][i] EXCEPT !.common = TRUE]]
            ELSE o.splits[a]]]

update_common_splits(o) ==
    LET start == common_bss_start(o)
    IN  IF start = None THEN o
        ELSE LET bss_section == o.sections[Unwrap(find_section(o, Name.bss))]
             IN  MarkCommon(o, Unwrap(start), bss_section.address + bss_section.size)

\* update_splits: update_common_splits(obj)?;
UpdateCommon ==
    /\ pc = "common_call"
    /\ obj' = update_common_splits(obj)
    /\ loc' = [entry_splits |-> obj.splits]
    /\ pc' = "link_call"
    /\ UNCHANGED <<res, objects, text>>

-----------------------------------------------------------------------------
(* split.rs: resolve_link_order *)

\* the while-let over consecutive splits (a, b) of one section
RECURSIVE PairEdges(_)
PairEdges(iter) ==
    IF Len(iter) < 2 THEN {}
    ELSE LET a == iter[1][2]
             b == iter[2][2]
             edge == IF ~a.common /\ b.common THEN {}
                     ELSE IF a.unit # b.unit THEN {<<a.unit, b.unit>>}
                     ELSE {}
         IN  edge \cup PairEdges(Tail(iter))

\* SectionIter with the first split of .ctors and .dtors kept
SectionIter_NoSkip(o, i) ==
    splits_for_range(o, o.sections[i].address, o.sections[i].address + o.sections[i].size)

\* .ctors and .dtors: the first split is skipped
SectionIter(o, i) ==
    LET section == o.sections[i]
        iter == splits_for_range(o, section.address, section.address + section.size)
    IN  IF section.name \in {Name.ctors, Name.dtors} /\ iter # <<>>
        THEN Tail(iter) ELSE iter

\* LinkEdges with only the first section's pairs taken
LinkEdges_FirstSectionOnly(o) == PairEdges(SectionIter(o, 1))

LinkEdges(o) == UNION {PairEdges(SectionIter(o, i)) : i \in 1..Len(o.sections)}

\* LinkNodes with only the units that have an edge
LinkNodes_WithEdge(o) == {e[1] : e \in LinkEdges(o)} \cup {e[2] : e \in LinkEdges(o)}

\* the nodes of the graph: the unit of every split of the image
LinkNodes(o) == {all_splits(o)[k][2].unit : k \in 1..Len(all_splits(o))}

\* the sequences that list every element of S once
RECURSIVE Orderings(_)
Orderings(S) ==
    IF S = {} THEN {<<>>}
    ELSE UNION {{<<x>> \o r : r \in Orderings(S \ {x})} : x \in S}

Position(order, x) == CHOOSE k \in 1..Len(order) : order[k] = x

\* petgraph::algo::toposort, Ok: an order of the nodes that respects every edge
TopoOrders(nodes, edges) ==
    {order \in Orderings(nodes) :
        \A e \in edges : Position(order, e[1]) < Position(order, e[2])}

\* nodes reachable from n along at least one edge
RECURSIVE ReachFrom(_, _)
ReachFrom(frontier, edges) ==
    LET next == frontier \cup {e[2] : e \in {d \in edges : d[1] \in frontier}}
    IN  IF next = frontier THEN frontier ELSE ReachFrom(next, edges)

Successors(n, edges) == {e[2] : e \in {d \in edges : d[1] = n}}

\* ObjInfo::is_unit_autogenerated: every split of the unit is autogenerated
is_unit_autogenerated(o, name) ==
    \A k \in 1..Len(all_splits(o)) :
        all_splits(o)[k][2].unit = name => all_splits(o)[k][2].autogenerated

\* the descriptor of a unit: the one the image's link order already has, else a new one
UnitDescriptor(o, name) ==
    LET hits == {k \in 1..Len(o.link_order) : o.link_order[k].name = name}
    IN  IF hits # {} THEN o.link_order[CHOOSE k \in hits : \A j \in hits : k <= j]
        ELSE [name |-> name, autogenerated |-> is_unit_autogenerated(o, name),
              comment_version |-> None]

\* obj.link_order = resolve_link_order(obj)?;  (toposort returned Ok)
ResolveOk ==
    /\ pc = "link_call"
    /\ \E order \in TopoOrders(LinkNodes(obj), LinkEdges(obj)) :
          obj' = [obj EXCEPT !.link_order =
                     [k \in 1..Len(order) |-> UnitDescriptor(obj, order[k])]]
    /\ pc' = "done"
    /\ res' = [ok |-> TRUE, err |-> ""]
    /\ UNCHANGED <<loc, objects, text>>

\* resolve_link_order: Err("Cyclic dependency (involving {}) ...")
ResolveCycle ==
    /\ pc = "link_call"
    /\ TopoOrders(LinkNodes(obj), LinkEdges(obj)) = {}
    /\ \E n \in {m \in LinkNodes(obj) :
                    m \in ReachFrom(Successors(m, LinkEdges(obj)), LinkEdges(obj))} :
          res' = [ok |-> FALSE, err |-> "cyclic", node |-> n]
    /\ pc' = "failed"
    /\ UNCHANGED <<obj, loc, objects, text>>

-----------------------------------------------------------------------------
(* The images update_common_splits and resolve_link_order are run on *)

MaxUnits == 2

UnitNames == <<Name.U, Name.V, Name.W, <<"X">>, <<"Y">> >>

OrderSections ==
    << MkSection(Name.text, "Code", 0, <<1, 1>>),
       MkSection(Name.ctors, "Data", 8, <<1, 1, 0>>),
       [MkSection(Name.bss, "Bss", 20, <<0, 0, 0>>) EXCEPT !.data = <<>>] >>

BssAddrs == {20, 24, 28}

\* a split map from a choice, per address, of no split (0) or of a unit, and
\* of the common flag of the .bss splits
SplitsOfUnits(f, c) ==
    [a \in {x \in DOMAIN f : f[x] # 0} |->
        <<MkSplit(UnitNames[f[a]], 0, a \in DOMAIN c /\ c[a])>>]

\* unit names are interchangeable: the k-th unit is first used after the (k-1)-th
FirstUseInOrder(f) ==
    \A a \in DOMAIN f : f[a] > 1 => \E b \in DOMAIN f : b < a /\ f[b] = f[a] - 1

InitOrder ==
    /\ \E f \in [{0, 4, 8, 12, 16, 20, 24, 28} -> 0..MaxUnits] :
       \E c \in [BssAddrs -> BOOLEAN] :
          /\ f[0] # 0 /\ f[4] # 0
          /\ FirstUseInOrder(f)
          /\ \A a \in BssAddrs : f[a] = 0 => ~c[a]
          /\ obj = MkImage(OrderSections, <<>>, SplitsOfUnits(f, c))
    /\ pc = "common_call"
    /\ loc = [entry_splits |-> EmptyMap]
    /\ res = [ok |-> FALSE, err |-> ""]
    /\ objects = <<>>
    /\ text = <<>>

SpecOrder == InitOrder /\ [][UpdateCommon \/ ResolveOk \/ ResolveCycle]_vars

-----------------------------------------------------------------------------
(* C2, C7: the link order and the order of the splits inside the sections *)

\* the pairs of address-consecutive splits of section i the claims speak of:
\* different units, not led by the first split of .ctors/.dtors, not a
\* transition from a non-common to a common split
ClaimPairs(o, i) ==
    LET ss == SectionSplits(o, i)
    IN  {<<ss[k][2].unit, ss[k + 1][2].unit>> : k \in
            {j \in 1..(Len(ss) - 1) :
                /\ ss[j][2].unit # ss[j + 1][2].unit
                /\ ~(o.sections[i].name \in {Name.ctors, Name.dtors} /\ j = 1)
                /\ ~(~ss[j][2].common /\ ss[j + 1][2].common)}}

ClaimEdges(o) == UNION {ClaimPairs(o, i) : i \in 1..Len(o.sections)}

OnCycle(n, edges) == \E m \in Successors(n, edges) : n \in ReachFrom({m}, edges)

LinkOrderNames(o) == [k \in 1..Len(o.link_order) |-> o.link_order[k].name]

\* C2: when resolve_link_order succeeds, for every pair of consecutive splits
\* (a, b) of a section with different units, outside the .ctors/.dtors-first and
\* the common-transition exceptions, a.unit stands before b.unit in the link order.
C2_LinkOrderRespectsSections ==
    (pc = "done" /\ res.ok) =>
        \A e \in ClaimEdges(obj) :
            /\ e[1] \in SeqToSet(LinkOrderNames(obj))
            /\ e[2] \in SeqToSet(LinkOrderNames(obj))
            /\ Position(LinkOrderNames(obj), e[1]) < Position(LinkOrderNames(obj), e[2])

\* C2 witness: a link order was returned for an image in which both .text and
\* .ctors (past its first split) order two different units
C2_Witness ==
    /\ pc = "done" /\ res.ok
    /\ ClaimPairs(obj, 1) # {}
    /\ ClaimPairs(obj, 2) # {}

\* C7: if the "appears before" edges contain a cycle, resolve_link_order fails,
\* returns no link order and names a unit on a cycle; otherwise it succeeds.
C7_CycleFails ==
    (pc \in {"done", "failed"}) =>
        IF \E e \in ClaimEdges(obj) : OnCycle(e[1], ClaimEdges(obj))
        THEN /\ pc = "failed" /\ ~res.ok /\ res.err = "cyclic"
             /\ OnCycle(res.node, ClaimEdges(obj))
             /\ obj.link_order = <<>>
        ELSE pc = "done" /\ res.ok

\* C7 witness: the resolver failed on U -> V from .text and V -> U from .ctors
C7_Witness ==
    /\ pc = "failed" /\ res.err = "cyclic"
    /\ <<Name.U, Name.V>> \in ClaimPairs(obj, 1)
    /\ <<Name.V, Name.U>> \in ClaimPairs(obj, 2)

-----------------------------------------------------------------------------
(* C5: the common .bss splits after update_common_splits *)

\* the addresses of the .bss splits that were common when the pass was called
CommonAtEntry ==
    {a \in BssAddrs \cap DOMAIN loc.entry_splits :
        \E i \in 1..Len(loc.entry_splits[a]) : loc.entry_splits[a][i].common}

\* C5: after update_common_splits the common .bss split addresses are upward
\* closed, and every .bss split below the first originally-common one is not common.
C5_CommonUpwardClosed ==
    (pc \in {"link_call", "done", "failed"}) =>
        LET ss == SectionSplits(obj, Unwrap(find_section(obj, Name.bss)))
        IN  /\ \A k, j \in 1..Len(ss) :
                  (ss[k][2].common /\ ss[j][1] >= ss[k][1]) => ss[j][2].common
            /\ \A k \in 1..Len(ss) :
                  (\A c \in CommonAtEntry : ss[k][1] < c) => ~ss[k][2].common

\* C5 witness: .bss splits at A < B < C of which only B was common: the pass
\* left A alone and made C common
C5_Witness ==
    /\ pc = "link_call"
    /\ CommonAtEntry = {24}
    /\ BssAddrs \subseteq DOMAIN obj.splits
    /\ ~obj.splits[20][1].common
    /\ obj.splits[24][1].common
    /\ obj.splits[28][1].common

-----------------------------------------------------------------------------
(* split.rs: split_ctors_dtors and split_extabindex *)

\* ObjInfo::section_data(start, end): the section holding [start, end), if any
section_data(o, start, end) ==
    LET hit == section_at(o, start)
    IN  IF hit = None THEN None
        ELSE IF end > o.sections[Unwrap(hit)].address + o.sections[Unwrap(hit)].size
             THEN None
        ELSE IF o.sections[Unwrap(hit)].data = <<>> THEN None
        ELSE hit

\* u32::from_be_bytes(chunk[k..k+4]) of the word at address addr
WordAt(o, section_idx, addr) ==
    o.sections[section_idx].data[((addr - o.sections[section_idx].address) \div 4) + 1]

\* ObjSymbols::by_name: [err, sym]; more than one symbol of the name is an error
by_name(o, name) ==
    LET hits == {i \in 1..Len(o.symbols) : o.symbols[i].name = name}
    IN  IF Cardinality(hits) > 1 THEN [err |-> TRUE, sym |-> None]
        ELSE IF hits = {} THEN [err |-> FALSE, sym |-> None]
        ELSE [err |-> FALSE, sym |-> Some(CHOOSE i \in hits : TRUE)]

\* ObjSymbols::set_externally_referenced(idx, true) for every idx of the list
set_externally_referenced(o, referenced_symbols) ==
    [o EXCEPT !.symbols =
        [i \in 1..Len(o.symbols) |->
            IF i \in referenced_symbols
            THEN [o.symbols[i] EXCEPT !.flags = @ \cup {"ExternallyReferenced"}]
            ELSE o.symbols[i]]]

\* FunctionUnitName with the section name as it is
FunctionUnitName_DotKept(o, function_symbol) ==
    function_symbol.name \o <<"_">> \o o.sections[Unwrap(function_symbol.section)].name

\* format!("{}_{}", function_symbol.name, section_name.trim_start_matches('.'))
FunctionUnitName(o, function_symbol) ==
    LET section_name ==
            IF IsSome(function_symbol.section)
               /\ Unwrap(function_symbol.section) \in 1..Len(o.sections)
            THEN o.sections[Unwrap(function_symbol.section)].name
            ELSE Name.unknown
    IN  function_symbol.name \o <<"_">> \o TrimStartDot(section_name)

\* AutoSplit with the split one word longer
AutoSplit_OneWordLonger(unit, end) ==
    [unit |-> unit, end |-> end + 4, align |-> None, common |-> FALSE, autogenerated |-> TRUE]

\* ObjSplit { unit, end, align: None, common: false, autogenerated: true }
AutoSplit(unit, end) ==
    [unit |-> unit, end |-> end, align |-> None, common |-> FALSE, autogenerated |-> TRUE]

\* the symbol kind_at_address found
SymbolOf(o, found) == o.symbols[Unwrap(found.sym)]

\* ExpectedUnit going on with the unit of the first split found
ExpectedUnit_FirstWins(found, expected_unit, function_unit) ==
    [err |-> FALSE,
     unit |-> IF \E k \in 1..Len(found) : IsSome(found[k])
              THEN Unwrap(found[CHOOSE k \in 1..Len(found) :
                              IsSome(found[k]) /\ \A j \in 1..(k - 1) : found[j] = None])[2].unit
              ELSE function_unit]

\* the reconciliation of the units of the existing splits, in the order the
\* code visits them, and the unit the new splits get: [err, unit]
RECURSIVE ExpectedUnit(_, _, _)
ExpectedUnit(found, expected_unit, function_unit) ==
    IF found = <<>>
    THEN [err |-> FALSE,
          unit |-> IF IsSome(expected_unit) THEN Unwrap(expected_unit) ELSE function_unit]
    ELSE IF Head(found) = None THEN ExpectedUnit(Tail(found), expected_unit, function_unit)
    ELSE IF IsSome(expected_unit)
         THEN IF Unwrap(expected_unit) = Unwrap(Head(found))[2].unit
              THEN ExpectedUnit(Tail(found), expected_unit, function_unit)
              ELSE [err |-> TRUE, unit |-> function_unit]
         ELSE ExpectedUnit(Tail(found), Some(Unwrap(Head(found))[2].unit), function_unit)

\* new_splits.insert(addr, ObjSplit { unit, end, .. }) for every entry of adds
\* whose split is missing
RECURSIVE InsertMissing(_, _, _)
InsertMissing(new_splits, unit, adds) ==
    IF adds = <<>> THEN new_splits
    ELSE InsertMissing(
            IF Head(adds).missing
            THEN MapPut(new_splits, Head(adds).addr, AutoSplit(unit, Head(adds).end))
            ELSE new_splits,
            unit, Tail(adds))

\* ScanStop with the splits collected so far committed
ScanStop_Committed(o, new_splits, msg) ==
    [err |-> msg, obj |-> CommitSplits(o, new_splits), new_splits |-> EmptyMap]

\* `?`, bail! and ensure! inside the while loop of a pass: the pass returns Err,
\* new_splits is dropped and the image is as it was
ScanStop(o, new_splits, msg) == [err |-> msg, obj |-> o, new_splits |-> EmptyMap]

\* split_ctors_dtors from its while loop on: [err, obj, new_splits]
RECURSIVE CtorsScan(_, _, _, _, _)
CtorsScan(o, current_address, section_end, new_splits, referenced_symbols) ==
    IF current_address >= section_end
    THEN [err |-> "",
          obj |-> set_externally_referenced(CommitSplits(o, new_splits), referenced_symbols),
          new_splits |-> new_splits]
    ELSE
    LET data == section_data(o, current_address, current_address + 4)
        function_addr == WordAt(o, Unwrap(data), current_address)
        function == kind_at_address(o, function_addr, "Function")
        function_symbol == SymbolOf(o, function)
        found == <<split_for(o, current_address), split_for(o, function_addr)>>
        expected == ExpectedUnit(found, None, FunctionUnitName(o, function_symbol))
        stop(msg) == ScanStop(o, new_splits, msg)
    IN  IF data = None THEN stop("section data")
        ELSE IF function.err THEN stop("multiple symbols")
        ELSE IF function.sym = None THEN stop("no function symbol")
        ELSE IF expected.err THEN stop("mismatched splits")
        ELSE CtorsScan(o, current_address + 4, section_end,
                InsertMissing(new_splits, expected.unit,
                    << [missing |-> found[1] = None, addr |-> current_address,
                        end |-> current_address + 4],
                       [missing |-> found[2] = None, addr |-> function_addr,
                        end |-> function_addr + function_symbol.size] >>),
                referenced_symbols \cup {Unwrap(function.sym)})

\* split_ctors_dtors: [err, obj, new_splits]
split_ctors_dtors(o, section_start, section_end) ==
    CtorsScan(o, section_start, section_end, EmptyMap, {})

\* split_extabindex from its while loop on: [err, obj, new_splits]
RECURSIVE ExtabindexScan(_, _, _, _)
ExtabindexScan(o, current_address, section_end, new_splits) ==
    IF current_address >= section_end
    THEN [err |-> "", obj |-> CommitSplits(o, new_splits), new_splits |-> new_splits]
    ELSE
    LET data == section_data(o, current_address, current_address + 12)
        function_addr == WordAt(o, Unwrap(data), current_address)
        function_size == WordAt(o, Unwrap(data), current_address + 4)
        extab_addr == WordAt(o, Unwrap(data), current_address + 8)
        eti == kind_at_address(o, current_address, "Object")
        function == kind_at_address(o, function_addr, "Function")
        extab == kind_at_address(o, extab_addr, "Object")
        function_symbol == SymbolOf(o, function)
        extab_symbol == SymbolOf(o, extab)
        found == <<split_for(o, current_address), split_for(o, extab_addr),
                   split_for(o, function_addr)>>
        expected == ExpectedUnit(found, None, FunctionUnitName(o, function_symbol))
        stop(msg) == ScanStop(o, new_splits, msg)
    IN  IF data = None THEN stop("section data")
        ELSE IF eti.err THEN stop("multiple symbols")
        ELSE IF eti.sym = None THEN stop("no extabindex symbol")
        ELSE IF ~(SymbolOf(o, eti).size_known /\ SymbolOf(o, eti).size = 12) THEN stop("extabindex symbol size")
        ELSE IF function.err THEN stop("multiple symbols")
        ELSE IF function.sym = None THEN stop("no function symbol")
        ELSE IF ~(SymbolOf(o, function).size_known
                  /\ SymbolOf(o, function).size = function_size) THEN stop("function symbol size")
        ELSE IF extab.err THEN stop("multiple symbols")
        ELSE IF extab.sym = None THEN stop("no extab symbol")
        ELSE IF ~(SymbolOf(o, extab).size_known /\ SymbolOf(o, extab).size > 0) THEN stop("extab symbol size")
        ELSE IF expected.err THEN stop("mismatched splits")
        ELSE ExtabindexScan(o, current_address + 12, section_end,
                InsertMissing(new_splits, expected.unit,
                    << [missing |-> found[1] = None, addr |-> current_address,
                        end |-> current_address + 12],
                       [missing |-> found[2] = None, addr |-> extab_addr,
                        end |-> extab_addr + extab_symbol.size],
                       [missing |-> found[3] = None, addr |-> function_addr,
                        end |-> function_addr + function_symbol.size] >>))

\* split_extabindex: [err, obj, new_splits]
split_extabindex(o, section_index, section_start) ==
    LET eti_init_info == by_name(o, Name.eti_init_info)
        fail(msg) == [err |-> msg, obj |-> o, new_splits |-> EmptyMap]
    IN  IF eti_init_info.err THEN fail("multiple symbols")
        ELSE IF eti_init_info.sym = None THEN fail("no _eti_init_info")
        ELSE IF o.symbols[Unwrap(eti_init_info.sym)].section # Some(section_index)
             THEN fail("_eti_init_info in the wrong section")
        ELSE ExtabindexScan(o, section_start,
                            o.symbols[Unwrap(eti_init_info.sym)].address, EmptyMap)

-----------------------------------------------------------------------------
(* split.rs: update_splits, the three propagation passes in the order it runs them *)

\* the entries of a pass's new_splits, as <<addr, split>>
Entries(new_splits) == {<<a, new_splits[a]>> : a \in DOMAIN new_splits}

\* if let Some(section) = find("extabindex") { split_extabindex(...)?; }
PassExtabindex ==
    /\ pc = "extabindex_call"
    /\ \E found \in {find_section(obj, Name.extabindex)} :
          IF found = None
          THEN pc' = "ctors_call" /\ UNCHANGED <<obj, loc, res>>
          ELSE \E r \in {split_extabindex(obj, Unwrap(found),
                                          obj.sections[Unwrap(found)].address)} :
                  IF r.err # ""
                  THEN Fail(r.err) /\ obj' = r.obj /\ UNCHANGED loc
                  ELSE /\ obj' = r.obj
                       /\ loc' = [loc EXCEPT !.extabindex_new = Entries(r.new_splits)]
                       /\ pc' = "ctors_call"
                       /\ UNCHANGED res
    /\ UNCHANGED <<objects, text>>

\* if let Some(section) = find(".ctors") { split_ctors_dtors(obj, start, end - 4)?; }
PassCtors ==
    /\ pc = "ctors_call"
    /\ \E found \in {find_section(obj, Name.ctors)} :
          IF found = None
          THEN pc' = "dtors_call" /\ UNCHANGED <<obj, loc, res>>
          ELSE \E section \in {obj.sections[Unwrap(found)]} :
               \E r \in {split_ctors_dtors(obj, section.address,
                                           section.address + section.size - 4)} :
                  IF r.err # ""
                  THEN Fail(r.err) /\ obj' = r.obj /\ UNCHANGED loc
                  ELSE /\ obj' = r.obj
                       /\ loc' = [loc EXCEPT !.ctors_new = Entries(r.new_splits)]
                       /\ pc' = "dtors_call"
                       /\ UNCHANGED res
    /\ UNCHANGED <<objects, text>>

\* if let Some(section) = find(".dtors") { split_ctors_dtors(obj, start + 4, end - 4)?; }
PassDtors ==
    /\ pc = "dtors_call"
    /\ \E found \in {find_section(obj, Name.dtors)} :
          IF found = None
          THEN pc' = "done" /\ res' = [ok |-> TRUE, err |-> ""] /\ UNCHANGED <<obj, loc>>
          ELSE \E section \in {obj.sections[Unwrap(found)]} :
               \E r \in {split_ctors_dtors(obj, section.address + 4,
                                           section.address + section.size - 4)} :
                  IF r.err # ""
                  THEN Fail(r.err) /\ obj' = r.obj /\ UNCHANGED loc
                  ELSE /\ obj' = r.obj
                       /\ loc' = [loc EXCEPT !.dtors_new = Entries(r.new_splits)]
                       /\ pc' = "done"
                       /\ res' = [ok |-> TRUE, err |-> ""]
    /\ UNCHANGED <<objects, text>>

-----------------------------------------------------------------------------
(* The images the propagation passes are run on *)

\* .text holds foo [0, 8) and bar [8, 16); extab holds e [16, 20); extabindex
\* holds one record (function, size, extab) at 24 and _eti_init_info at 36;
\* .ctors holds two entries and the null terminator; .dtors holds its head,
\* one entry and the null terminator
PropSections(faddr, c1, c2, d1) ==
    << MkSection(Name.text, "Code", 0, <<1, 1, 1, 1>>),
       MkSection(Name.extab, "Data", 16, <<1, 1>>),
       MkSection(Name.extabindex, "Data", 24, <<faddr, 8, 16, 0>>),
       MkSection(Name.ctors, "Data", 40, <<c1, c2, 0>>),
       MkSection(Name.dtors, "Data", 52, <<1, d1, 0>>) >>

PropSymbols ==
    << MkSymbol(Name.foo, 0, Some(1), 8, "Function", {"Global"}),
       MkSymbol(Name.bar, 8, Some(1), 8, "Function", {"Local"}),
       MkSymbol(Name.e, 16, Some(2), 4, "Object", {"Local"}),
       MkSymbol(Name.i, 24, Some(3), 12, "Object", {"Local"}),
       MkSymbol(Name.eti_init_info, 36, Some(3), 4, "Object", {"Global"}) >>

\* the user splits: one per symbol or table entry, ending where it ends
PropSplitEnd == [a \in {0, 8, 16, 24, 40, 44, 56} |->
                    IF a \in {0, 8} THEN a + 8
                    ELSE IF a = 24 THEN 36 ELSE a + 4]

PropSplits(f) ==
    [a \in {x \in DOMAIN f : f[x] # 0} |->
        <<MkSplit(UnitNames[f[a]], PropSplitEnd[a], FALSE)>>]

InitPropagate ==
    /\ \E f \in [DOMAIN PropSplitEnd -> 0..MaxUnits] :
       \E faddr \in {0, 8}, c1 \in {0, 8}, c2 \in {0, 4, 8}, d1 \in {8} :
          /\ FirstUseInOrder(f)
          /\ obj = MkImage(PropSections(faddr, c1, c2, d1), PropSymbols, PropSplits(f))
    /\ pc = "extabindex_call"
    /\ loc = [extabindex_new |-> {}, ctors_new |-> {}, dtors_new |-> {}]
    /\ res = [ok |-> FALSE, err |-> ""]
    /\ objects = <<>>
    /\ text = <<>>

SpecPropagate == InitPropagate /\ [][PassExtabindex \/ PassCtors \/ PassDtors]_vars

-----------------------------------------------------------------------------
(* C6: the splits the propagation passes insert and the symbols they cover *)

\* a symbol starts at the split's start and is as long as the split
SymbolMatches(o, entry) ==
    \E k \in 1..Len(o.symbols) :
        /\ o.symbols[k].address = entry[1]
        /\ o.symbols[k].size = entry[2].end - entry[1]

\* the inserted split is a table-entry split of .ctors or .dtors
IsTableEntrySplit(o, entry) ==
    /\ IsSome(section_at(o, entry[1]))
    /\ o.sections[Unwrap(section_at(o, entry[1]))].name \in {Name.ctors, Name.dtors}

InsertedByPasses == loc.extabindex_new \cup loc.ctors_new \cup loc.dtors_new

\* C6 (as claimed): every split inserted by split_ctors_dtors or split_extabindex,
\* the 4-byte table-entry splits included, starts at a symbol of the split's length.
C6_EveryInsertedSplitHasSymbol ==
    \A entry \in InsertedByPasses : SymbolMatches(obj, entry)

\* C6 (amended): every split inserted by split_extabindex, and every split
\* inserted by split_ctors_dtors other than the 4-byte .ctors/.dtors table-entry
\* splits, starts at a symbol whose size is the split's length.
C6_InsertedSplitHasSymbol ==
    \A entry \in InsertedByPasses :
        ~IsTableEntrySplit(obj, entry) => SymbolMatches(obj, entry)

\* C6 witness: the extabindex pass inserted its three splits and the .ctors
\* pass a function split
C6_Witness ==
    /\ Cardinality(loc.extabindex_new) = 3
    /\ \E entry \in loc.ctors_new : ~IsTableEntrySplit(obj, entry)

-----------------------------------------------------------------------------
(* C12: splits of one table entry that name different units *)

\* two of the splits found for one entry name different units
Disagree(found) ==
    \E j, k \in 1..Len(found) :
        /\ IsSome(found[j]) /\ IsSome(found[k])
        /\ Unwrap(found[j])[2].unit # Unwrap(found[k])[2].unit

\* an entry of the table `name` scanned from start + skip to end - 4 whose own
\* split and whose function's split name different units
CtorsDisagree(o, name, skip) ==
    /\ IsSome(find_section(o, name))
    /\ \E A \in 0..(o.sections[Unwrap(find_section(o, name))].address
                     + o.sections[Unwrap(find_section(o, name))].size) :
          /\ A >= o.sections[Unwrap(find_section(o, name))].address + skip
          /\ A + 4 <= o.sections[Unwrap(find_section(o, name))].address
                       + o.sections[Unwrap(find_section(o, name))].size - 4
          /\ (A - o.sections[Unwrap(find_section(o, name))].address) % 4 = 0
          /\ Disagree(<<split_for(o, A),
                        split_for(o, WordAt(o, Unwrap(find_section(o, name)), A))>>)

\* a record of extabindex, up to _eti_init_info, two of whose three splits
\* (index record, extab entry, function) name different units
ExtabindexDisagree(o) ==
    /\ IsSome(find_section(o, Name.extabindex))
    /\ IsSome(by_name(o, Name.eti_init_info).sym)
    /\ \E A \in 0..o.symbols[Unwrap(by_name(o, Name.eti_init_info).sym)].address :
          /\ A >= o.sections[Unwrap(find_section(o, Name.extabindex))].address
          /\ A + 12 <= o.symbols[Unwrap(by_name(o, Name.eti_init_info).sym)].address
          /\ (A - o.sections[Unwrap(find_section(o, Name.extabindex))].address) % 12 = 0
          /\ Disagree(<<split_for(o, A),
                        split_for(o, WordAt(o, Unwrap(find_section(o, Name.extabindex)), A + 8)),
                        split_for(o, WordAt(o, Unwrap(find_section(o, Name.extabindex)), A))>>)

\* C12: a propagation pass fails whenever two of the splits that exist when it
\* starts and that it reconciles for one table entry name different units (the
\* entry's split and the function's split for .ctors/.dtors; any two of the
\* index record's, the extab entry's and the function's split for extabindex);
\* it never goes on with one of the two units.
C12_MismatchFails ==
    [][/\ (pc = "extabindex_call" /\ ExtabindexDisagree(obj)) => pc' = "failed"
       /\ (pc = "ctors_call" /\ CtorsDisagree(obj, Name.ctors, 0)) => pc' = "failed"
       /\ (pc = "dtors_call" /\ CtorsDisagree(obj, Name.dtors, 4)) => pc' = "failed"]_vars

\* C12 witness: the .ctors pass failed on an entry whose split and whose
\* function's split name different units, after the extabindex pass had
\* inserted its splits
C12_Witness ==
    /\ pc = "failed"
    /\ res.err = "mismatched splits"
    /\ loc.extabindex_new # {}
    /\ CtorsDisagree(obj, Name.ctors, 0)
    /\ ~ExtabindexDisagree(obj)

-----------------------------------------------------------------------------
(* C15, C16: what split_ctors_dtors leaves behind *)

\* the entries split_ctors_dtors scans in the table `name`: every fourth
\* address from start + skip up to, not including, end - 4
ScannedEntries(o, name, skip) ==
    {A \in (o.sections[Unwrap(find_section(o, name))].address + skip)
           ..(o.sections[Unwrap(find_section(o, name))].address
              + o.sections[Unwrap(find_section(o, name))].size - 8) :
        (A - o.sections[Unwrap(find_section(o, name))].address) % 4 = 0}

\* the function address held by entry A of the table `name`
EntryFunction(o, name, A) == WordAt(o, Unwrap(find_section(o, name)), A)

\* every scanned entry and its function lie in splits of one unit
EntriesWithFunctions(o, name, skip) ==
    \A A \in ScannedEntries(o, name, skip) :
        /\ IsSome(split_for(o, A))
        /\ IsSome(split_for(o, EntryFunction(o, name, A)))
        /\ Unwrap(split_for(o, A))[2].unit
             = Unwrap(split_for(o, EntryFunction(o, name, A)))[2].unit

\* C15 (as claimed): when split_ctors_dtors has succeeded on .ctors (on .dtors),
\* every scanned entry A and the function F it points to lie in splits that
\* name the same unit, also when several entries point to the same function and
\* when some entries had user splits.
C15_EntryWithFunction ==
    /\ pc = "dtors_call" => EntriesWithFunctions(obj, Name.ctors, 0)
    /\ (pc = "done" /\ res.ok) => EntriesWithFunctions(obj, Name.dtors, 4)

\* the splits the rule of the pass inserts for entry A of the image the pass
\* starts on: none when A and its function F are both in a split; [A, A + 4)
\* and [F, F + F.size) in the unit "{function name}_{section name without
\* leading '.'}" when neither is; the missing one, in the unit of the other's
\* split, when exactly one is
RuleInserts(o, name, A) ==
    LET F == EntryFunction(o, name, A)
        function == o.symbols[Unwrap(kind_at_address(o, F, "Function").sym)]
        unit == IF IsSome(split_for(o, A)) THEN Unwrap(split_for(o, A))[2].unit
                ELSE IF IsSome(split_for(o, F)) THEN Unwrap(split_for(o, F))[2].unit
                ELSE function.name \o <<"_">>
                     \o TrimStartDot(o.sections[Unwrap(function.section)].name)
        split(end) == [unit |-> unit, end |-> end, align |-> None, common |-> FALSE,
                       autogenerated |-> TRUE]
    IN  (IF split_for(o, A) = None THEN {<<A, split(A + 4)>>} ELSE {})
        \cup (IF split_for(o, F) = None THEN {<<F, split(F + function.size)>>} ELSE {})

\* the splits a pass inserted are splits of the rule, and a split was inserted
\* at every address the rule inserts one at
InsertsFollowRule(new, o, name, skip) ==
    /\ new \subseteq UNION {RuleInserts(o, name, A) : A \in ScannedEntries(o, name, skip)}
    /\ {e[1] : e \in new}
         = {e[1] : e \in UNION {RuleInserts(o, name, A) : A \in ScannedEntries(o, name, skip)}}

\* C16: split_ctors_dtors scans exactly the 4-byte entries of .ctors from its
\* start to its end - 4 and of .dtors from its start + 4 to its end - 4, and
\* what it inserts follows its rule: for an entry A with function F, nothing
\* when both have a split; when neither has, [A, A + 4) and [F, F + F.size),
\* autogenerated, not common, in the unit "{function name}_{name of the
\* function's section without its leading '.'}"; when exactly one has, only the
\* missing one, in the unit of the split that exists.
C16_InsertsByRule ==
    [][/\ (pc = "ctors_call" /\ pc' = "dtors_call") =>
              InsertsFollowRule(loc'.ctors_new, obj, Name.ctors, 0)
       /\ (pc = "dtors_call" /\ pc' = "done") =>
              InsertsFollowRule(loc'.dtors_new, obj, Name.dtors, 4)]_vars

\* C16 witness: the .ctors pass put its first entry and the function bar,
\* neither in a split, into the unit bar_text, and its second entry into the
\* user's unit of the function foo; the .dtors pass inserted nothing for the
\* head and the null word of .dtors
C16_Witness ==
    /\ pc = "done" /\ res.ok
    /\ \E e \in loc.ctors_new :
          e[1] = 8 /\ e[2] = AutoSplit(<<"b","a","r","_","t","e","x","t">>, 16)
    /\ \E e \in loc.ctors_new : e[1] = 40 /\ e[2].unit = <<"b","a","r","_","t","e","x","t">>
    /\ \E e \in loc.ctors_new : e[1] = 44 /\ e[2].unit = Name.U /\ e[2].end = 48
    /\ \A e \in loc.ctors_new \cup loc.dtors_new : e[1] \notin {48, 52, 60}

-----------------------------------------------------------------------------
(* split.rs: update_splits, its passes run one after the other *)

\* create_gap_splits(obj)?; follows the .dtors pass
UpdateAfterDtors ==
    /\ pc = "done"
    /\ "dtors_new" \in DOMAIN loc
    /\ pc' = "gap_call"
    /\ UNCHANGED <<obj, loc, res, objects, text>>

\* update_common_splits(obj)?; follows create_gap_splits
UpdateAfterGap ==
    /\ pc = "done"
    /\ "new_splits" \in DOMAIN loc
    /\ pc' = "common_call"
    /\ loc' = [entry_splits |-> EmptyMap]
    /\ UNCHANGED <<obj, res, objects, text>>

\* The images update_splits is run on: .text holds foo [0, 4) and bar [4, 8),
\* extab holds e [8, 12), extabindex holds the record of foo at 12 and
\* _eti_init_info at 24, .ctors holds two entries and the null terminator,
\* .bss is [40, 48).  f gives the unit of the user split of each function and
\* table entry (0: none), long makes the split of foo end inside bar, bss
\* chooses the .bss splits: none, a common split followed by a plain one, a
\* plain split followed by a common one, or plain splits of units V and U.
UpdateImage(f, c2, long, bss) ==
    MkImage(
        << MkSection(Name.text, "Code", 0, <<1, 1>>),
           MkSection(Name.extab, "Data", 8, <<1>>),
           MkSection(Name.extabindex, "Data", 12, <<0, 4, 8, 0>>),
           MkSection(Name.ctors, "Data", 28, <<0, c2, 0>>),
           [MkSection(Name.bss, "Bss", 40, <<0, 0>>) EXCEPT !.data = <<>>] >>,
        << MkSymbol(Name.foo, 0, Some(1), 4, "Function", {"Global"}),
           MkSymbol(Name.bar, 4, Some(1), 4, "Function", {"Local"}),
           MkSymbol(Name.e, 8, Some(2), 4, "Object", {"Local"}),
           MkSymbol(Name.i, 12, Some(3), 12, "Object", {"Local"}),
           MkSymbol(Name.eti_init_info, 24, Some(3), 4, "Object", {"Global"}) >>,
        [a \in {x \in DOMAIN f : f[x] # 0} \cup (IF bss = 0 THEN {} ELSE {40, 44}) |->
            IF a >= 40
            THEN IF bss = 3 THEN <<MkSplit(IF a = 40 THEN Name.V ELSE Name.U, a + 4, FALSE)>>
                 ELSE <<MkSplit(Name.W, a + 4, (a = 40) = (bss = 1))>>
            ELSE <<MkSplit(UnitNames[f[a]],
                           IF a = 0 THEN (IF long THEN 6 ELSE 4)
                           ELSE IF a = 12 THEN 24 ELSE a + 4,
                           FALSE)>>])

InitUpdate ==
    /\ \E f \in [{0, 4, 12, 28, 32} -> 0..MaxUnits] :
       \E c2 \in {0, 4}, long \in BOOLEAN, bss \in 0..3 :
          /\ FirstUseInOrder(f)
          /\ long => f[0] # 0
          /\ obj = UpdateImage(f, c2, long, bss)
    /\ pc = "extabindex_call"
    /\ loc = [extabindex_new |-> {}, ctors_new |-> {}, dtors_new |-> {}]
    /\ res = [ok |-> FALSE, err |-> ""]
    /\ objects = <<>>
    /\ text = <<>>

UpdateNext ==
    \/ PassExtabindex \/ PassCtors \/ PassDtors \/ UpdateAfterDtors
    \/ GapCall \/ GapFor \/ GapBreak \/ GapOverlap \/ GapFill \/ GapAdvance \/ GapCommit
    \/ UpdateAfterGap \/ UpdateCommon \/ ResolveOk \/ ResolveCycle

SpecUpdate == InitUpdate /\ [][UpdateNext]_vars

-----------------------------------------------------------------------------
(* C13, C14, C17: update_splits as a whole *)

\* C13: no step of update_splits removes a split or changes the start, unit, end
\* or align of a split that exists; of an existing split only the common flag
\* may change, and only from false to true.  (Holding for every step, it holds
\* from the entry of update_splits to its return.)
C13_SplitsKept ==
    [][\A a \in DOMAIN obj.splits :
          /\ a \in DOMAIN obj'.splits
          /\ Len(obj'.splits[a]) >= Len(obj.splits[a])
          /\ \A k \in 1..Len(obj.splits[a]) :
                \/ obj'.splits[a][k] = obj.splits[a][k]
                \/ /\ ~obj.splits[a][k].common
                   /\ obj'.splits[a][k] = [obj.splits[a][k] EXCEPT !.common = TRUE]]_vars

\* C13 witness: update_splits returned Ok; the user's plain .bss split at 44
\* that followed the common one at 40 is now common, and the image holds
\* autogenerated splits next to the user's
C13_Witness ==
    /\ pc = "done" /\ res.ok /\ "entry_splits" \in DOMAIN loc
    /\ obj.link_order # <<>>
    /\ 40 \in DOMAIN obj.splits /\ 44 \in DOMAIN obj.splits
    /\ obj.splits[40][1].unit = Name.W /\ obj.splits[40][1].common
    /\ obj.splits[44][1] = [MkSplit(Name.W, 48, TRUE) EXCEPT !.autogenerated = FALSE]
    /\ \E a \in DOMAIN obj.splits : obj.splits[a][1].autogenerated
    /\ \E a \in DOMAIN obj.splits : a < 40 /\ ~obj.splits[a][1].autogenerated

\* C14: a pass that fails leaves the image as it was when the pass started: the
\* split map is unchanged and no symbol was marked externally referenced (the
\* passes read the image during their scan and commit after it).
C14_FailureLeavesImage == [][pc' = "failed" => obj' = obj]_vars

\* C14 witness: the .ctors pass failed on its second entry, whose split and
\* whose function's split name different units, after it had collected a split
\* for its first entry, which is still without a split
C14_Witness ==
    /\ pc = "failed"
    /\ res.err = "mismatched splits"
    /\ loc.extabindex_new # {}
    /\ split_for(obj, 28) = None
    /\ Disagree(<<split_for(obj, 32), split_for(obj, WordAt(obj, 4, 32))>>)
    /\ \A k \in 1..Len(obj.symbols) : "ExternallyReferenced" \notin obj.symbols[k].flags

\* every scanned entry of the table `name` lies in a split
EntriesOwned(o, name, skip, width, end) ==
    IsSome(find_section(o, name)) =>
        \A A \in 0..end :
            (/\ A >= o.sections[Unwrap(find_section(o, name))].address + skip
             /\ A + width <= end
             /\ (A - o.sections[Unwrap(find_section(o, name))].address) % width = 0)
            => IsSome(split_for(o, A))

\* the .ctors/.dtors pass has run: every entry it scans has a split
CtorsDtorsDone(o) ==
    /\ EntriesOwned(o, Name.ctors, 0, 4,
          IF IsSome(find_section(o, Name.ctors))
          THEN o.sections[Unwrap(find_section(o, Name.ctors))].address
               + o.sections[Unwrap(find_section(o, Name.ctors))].size - 4 ELSE 0)
    /\ EntriesOwned(o, Name.dtors, 4, 4,
          IF IsSome(find_section(o, Name.dtors))
          THEN o.sections[Unwrap(find_section(o, Name.dtors))].address
               + o.sections[Unwrap(find_section(o, Name.dtors))].size - 4 ELSE 0)

\* the extabindex pass has run: every record up to _eti_init_info has a split
ExtabindexDone(o) ==
    EntriesOwned(o, Name.extabindex, 0, 12,
        IF IsSome(by_name(o, Name.eti_init_info).sym)
        THEN o.symbols[Unwrap(by_name(o, Name.eti_init_info).sym)].address ELSE 0)

\* C17 (as claimed): update_splits runs its passes in the order .ctors/.dtors,
\* extabindex/extab, gap filling, common .bss, link order, each to completion
\* before the next starts: when the extabindex pass starts, the .ctors/.dtors
\* pass has committed its splits; gap filling and the passes after it start on
\* the splits of both propagation passes; the link order is set last.
C17_PassOrder ==
    /\ pc = "extabindex_call" => CtorsDtorsDone(obj)
    /\ pc \in {"gap_call", "gap_for", "gap_loop", "common_call", "link_call"} =>
          CtorsDtorsDone(obj) /\ ExtabindexDone(obj)
    /\ pc \in {"extabindex_call", "ctors_call", "dtors_call", "gap_call", "gap_for", "gap_loop",
               "common_call", "link_call"} => obj.link_order = <<>>

-----------------------------------------------------------------------------
(* split.rs: split_obj, one action per phase and per branch of its section loop *)

\* the names is_linker_generated_label matches
LinkerGeneratedLabels ==
    {<<"_","c","t","o","r","s">>,
     <<"_","d","t","o","r","s">>,
     <<"_","f","_","i","n","i","t">>,
     <<"_","f","_","i","n","i","t","_","r","o","m">>,
     <<"_","e","_","i","n","i","t">>,
     <<"_","f","e","x","t","a","b">>,
     <<"_","f","e","x","t","a","b","_","r","o","m">>,
     <<"_","e","e","x","t","a","b">>,
     <<"_","f","e","x","t","a","b","i","n","d","e","x">>,
     <<"_","f","e","x","t","a","b","i","n","d","e","x","_","r","o","m">>,
     <<"_","e","e","x","t","a","b","i","n","d","e","x">>,
     <<"_","f","_","t","e","x","t">>,
     <<"_","f","_","t","e","x","t","_","r","o","m">>,
     <<"_","e","_","t","e","x","t">>,
     <<"_","f","_","c","t","o","r","s">>,
     <<"_","f","_","c","t","o","r","s","_","r","o","m">>,
     <<"_","e","_","c","t","o","r","s">>,
     <<"_","f","_","d","t","o","r","s">>,
     <<"_","f","_","d","t","o","r","s","_","r","o","m">>,
     <<"_","e","_","d","t","o","r","s">>,
     <<"_","f","_","r","o","d","a","t","a">>,
     <<"_","f","_","r","o","d","a","t","a","_","r","o","m">>,
     <<"_","e","_","r","o","d","a","t","a">>,
     <<"_","f","_","d","a","t","a">>,
     <<"_","f","_","d","a","t","a","_","r","o","m">>,
     <<"_","e","_","d","a","t","a">>,
     <<"_","f","_","s","d","a","t","a">>,
     <<"_","f","_","s","d","a","t","a","_","r","o","m">>,
     <<"_","e","_","s","d","a","t","a">>,
     <<"_","f","_","s","b","s","s">>,
     <<"_","f","_","s","b","s","s","_","r","o","m">>,
     <<"_","e","_","s","b","s","s">>,
     <<"_","f","_","s","d","a","t","a","2">>,
     <<"_","f","_","s","d","a","t","a","2","_","r","o","m">>,
     <<"_","e","_","s","d","a","t","a","2">>,
     <<"_","f","_","s","b","s","s","2">>,
     <<"_","f","_","s","b","s","s","2","_","r","o","m">>,
     <<"_","e","_","s","b","s","s","2">>,
     <<"_","f","_","b","s","s">>,
     <<"_","f","_","b","s","s","_","r","o","m">>,
     <<"_","e","_","b","s","s">>,
     <<"_","f","_","s","t","a","c","k">>,
     <<"_","f","_","s","t","a","c","k","_","r","o","m">>,
     <<"_","e","_","s","t","a","c","k">>,
     <<"_","s","t","a","c","k","_","a","d","d","r">>,
     <<"_","s","t","a","c","k","_","e","n","d">>,
     <<"_","d","b","_","s","t","a","c","k","_","a","d","d","r">>,
     <<"_","d","b","_","s","t","a","c","k","_","e","n","d">>,
     <<"_","h","e","a","p","_","a","d","d","r">>,
     <<"_","h","e","a","p","_","e","n","d">>,
     <<"_","n","b","f","u","n","c","t","i","o","n","s">>,
     <<"S","I","Z","E","O","F","_","H","E","A","D","E","R","S">>,
     <<"_","S","D","A","_","B","A","S","E","_">>,
     <<"_","S","D","A","2","_","B","A","S","E","_">>,
     <<"_","A","B","S","_","S","D","A","_","B","A","S","E","_">>,
     <<"_","A","B","S","_","S","D","A","2","_","B","A","S","E","_">>}

is_linker_generated_label(name) == name \in LinkerGeneratedLabels

default_section_align(section) ==
    IF section.kind = "Code" THEN 4
    ELSE IF section.name \in {Name.ctors, Name.dtors, Name.extab, Name.extabindex, Name.sbss}
         THEN 4
    ELSE 8

\* ReduceAlign with a single halving
ReduceAlign_Once(align, current_address) == IF align > 4 THEN align \div 2 ELSE align

\* while align > 4 { align /= 2; if current_address & (align - 1) == 0 { break; } }
RECURSIVE ReduceAlign(_, _)
ReduceAlign(align, current_address) ==
    IF align > 4
    THEN IF current_address % (align \div 2) = 0 THEN align \div 2
         ELSE ReduceAlign(align \div 2, current_address)
    ELSE align

\* the alignment the output section gets; align is a power of two, so that
\* current_address & (align - 1) is current_address % align
SplitAlign(split, section, current_address) ==
    IF current_address % (IF IsSome(split.align) THEN Unwrap(split.align)
                          ELSE default_section_align(section)) # 0
    THEN ReduceAlign(IF IsSome(split.align) THEN Unwrap(split.align)
                     ELSE default_section_align(section), current_address)
    ELSE IF IsSome(split.align) THEN Unwrap(split.align)
    ELSE default_section_align(section)

\* name_to_obj.get(unit): HashMap::insert keeps the last index inserted for a name
name_to_obj(link_order, unit) ==
    LET hits == {k \in 1..Len(link_order) : link_order[k].name = unit}
    IN  IF hits = {} THEN None
        ELSE Some(CHOOSE k \in hits : \A j \in hits : j <= k)

\* ObjInfo::new(ObjKind::Relocatable, .., unit.name, vec![], vec![]) and its mw_comment
NewObject(o, unit) ==
    [kind |-> "Relocatable", name |-> unit.name, sections |-> <<>>, symbols |-> <<>>,
     mw_comment |-> IF IsSome(unit.comment_version) THEN unit.comment_version
                    ELSE o.mw_comment]

\* ObjSymbolFlagSet::is_local
is_local(flags) == "Local" \in flags

\* ObjSymbolFlagSet::set_scope(ObjSymbolScope::Global)
set_scope_global(flags) == (flags \ {"Local", "Weak", "Common"}) \cup {"Global"}

\* the name a globalised symbol gets
NewName(target_sym) ==
    IF EndsWith(target_sym.name, FormatHex08(target_sym.address))
    THEN target_sym.name
    ELSE target_sym.name \o <<"_">> \o FormatHex08(target_sym.address)

\* ObjSymbol { name, demangled_name, ..Default::default() }
ExternStub(symbol) ==
    [DefaultSymbol EXCEPT !.name = symbol.name, !.demangled_name = symbol.demangled_name]

\* PadSymbol with the symbol's address as the size
PadSymbol_WholeAddress(comm_addr, symbol) ==
    [DefaultSymbol EXCEPT !.name = Name.pad \o <<"_">> \o ZeroPad(HexDigits(comm_addr), 10),
                          !.size = symbol.address, !.size_known = TRUE,
                          !.flags = {"Common"}, !.kind = "Object", !.align = Some(4)]

\* HACK: Add padding for common bug
PadSymbol(comm_addr, symbol) ==
    [DefaultSymbol EXCEPT !.name = Name.pad \o <<"_">> \o ZeroPad(HexDigits(comm_addr), 10),
                          !.size = symbol.address - comm_addr, !.size_known = TRUE,
                          !.flags = {"Common"}, !.kind = "Object", !.align = Some(4)]

\* the symbol as the output object holds it
OutSymbol(symbol, split, current_address, out_section_idx) ==
    [name |-> symbol.name, demangled_name |-> symbol.demangled_name,
     address |-> IF split.common THEN 4 ELSE symbol.address - current_address,
     section |-> IF split.common THEN None ELSE Some(out_section_idx),
     size |-> symbol.size, size_known |-> symbol.size_known,
     flags |-> IF split.common THEN {"Common"} ELSE symbol.flags,
     kind |-> symbol.kind,
     align |-> IF split.common THEN Some(4) ELSE symbol.align,
     data_kind |-> symbol.data_kind]

\* for (symbol_idx, symbol) in obj.symbols.for_range(current_address..file_end):
\* [symbols, symbol_idxs] of the file afterwards
RECURSIVE AddSectionSymbols(_, _, _, _, _, _, _, _)
AddSectionSymbols(o, syms, split, current_address, out_section_idx, file_symbols, symbol_idxs, comm_addr) ==
    IF syms = <<>> THEN [symbols |-> file_symbols, symbol_idxs |-> symbol_idxs]
    ELSE IF IsSome(symbol_idxs[Head(syms)])
    THEN AddSectionSymbols(o, Tail(syms), split, current_address, out_section_idx,
                           file_symbols, symbol_idxs, comm_addr)
    ELSE LET symbol == o.symbols[Head(syms)]
             padded == IF split.common /\ symbol.address > comm_addr
                       THEN Append(file_symbols, PadSymbol(comm_addr, symbol))
                       ELSE file_symbols
         IN  AddSectionSymbols(o, Tail(syms), split, current_address, out_section_idx,
                 Append(padded, OutSymbol(symbol, split, current_address, out_section_idx)),
                 [symbol_idxs EXCEPT ![Head(syms)] = Some(Len(padded) + 1)],
                 symbol.address + symbol.size)

\* OutReloc with the target replaced by the image's first symbol
OutReloc_FirstSymbol(o_reloc, current_address) ==
    [kind |-> o_reloc.kind, address |-> o_reloc.address - current_address,
     target_symbol |-> 1, addend |-> o_reloc.addend]

\* ObjReloc { kind, address: o.address - current_address, target_symbol, addend }
OutReloc(o_reloc, current_address) ==
    [kind |-> o_reloc.kind, address |-> o_reloc.address - current_address,
     target_symbol |-> o_reloc.target_symbol, addend |-> o_reloc.addend]

\* relocations.range(current_address..file_end).map(..).collect(): by address
RelocRange(section, current_address, file_end) ==
    LET addrs == SortedSeq({section.relocations[i].address : i \in
                    {j \in 1..Len(section.relocations) :
                        /\ current_address <= section.relocations[j].address
                        /\ section.relocations[j].address < file_end}})
    IN  [k \in 1..Len(addrs) |->
            OutReloc(section.relocations[CHOOSE i \in 1..Len(section.relocations) :
                         section.relocations[i].address = addrs[k]], current_address)]

\* OutSection with the data of the whole input section
OutSection_WholeData(o, section, current_address, file_end, align, out_section_idx) ==
    [name |-> section.name, kind |-> section.kind, address |-> 0,
     size |-> file_end - current_address, data |-> section.data,
     align |-> align, index |-> out_section_idx, elf_index |-> out_section_idx + 1,
     relocations |-> <<>>, original_address |-> current_address,
     file_offset |-> section.file_offset, section_known |-> TRUE]

\* file.sections.push(ObjSection { .. })
OutSection(o, section, current_address, file_end, align, out_section_idx) ==
    [name |-> IF current_address \in DOMAIN o.named_sections
              THEN o.named_sections[current_address] ELSE section.name,
     kind |-> section.kind, address |-> 0, size |-> file_end - current_address,
     data |-> IF section.kind = "Bss" THEN <<>>
              ELSE SubSeq(section.data, ((current_address - section.address) \div 4) + 1,
                          (file_end - section.address) \div 4),
     align |-> align, index |-> out_section_idx, elf_index |-> out_section_idx + 1,
     relocations |-> RelocRange(section, current_address, file_end),
     original_address |-> current_address,
     file_offset |-> section.file_offset + (current_address - section.address),
     section_known |-> TRUE]

\* the file after the split [current_address, file_end) was given to it
EmitFile(o, file, added, section, split, current_address, file_end, align) ==
    [file EXCEPT
        !.symbols = added.symbols,
        !.mw_comment = IF split.common /\ @ = None THEN Some(8) ELSE @,
        !.sections = IF split.common THEN @
                     ELSE Append(@, OutSection(o, section, current_address, file_end,
                                               align, Len(file.sections) + 1))]

\* ensure!(obj.kind == ObjKind::Executable); one output object per unit of the link order
SplitCall ==
    /\ pc = "split_call"
    /\ IF obj.kind # "Executable"
       THEN Fail("Expected executable object") /\ UNCHANGED <<loc, objects>>
       ELSE /\ objects' = [k \in 1..Len(obj.link_order) |-> NewObject(obj, obj.link_order[k])]
            /\ loc' = [section_idx |-> 1, current_address |-> 0, section_end |-> 0,
                       file_iter |-> <<>>,
                       object_symbols |-> [k \in 1..Len(obj.link_order) |->
                                              [i \in 1..Len(obj.symbols) |-> None]],
                       globalize_symbols |-> <<>>]
            /\ pc' = "split_for"
            /\ UNCHANGED res
    /\ UNCHANGED <<obj, text>>

\* for (section_idx, section) in obj.sections.iter().enumerate()
SplitFor ==
    /\ pc = "split_for"
    /\ loc.section_idx <= Len(obj.sections)
    /\ \E section \in {obj.sections[loc.section_idx]},
          section_end \in {end_for_section(obj, loc.section_idx)} :
          loc' = [loc EXCEPT !.current_address = section.address,
                             !.section_end = section_end,
                             !.file_iter = splits_for_range(obj, section.address, section_end)]
    /\ pc' = "split_loop"
    /\ UNCHANGED <<obj, res, objects, text>>

\* if current_address >= section_end { break; }
SplitBreak ==
    /\ pc = "split_loop"
    /\ loc.current_address >= loc.section_end
    /\ loc' = [loc EXCEPT !.section_idx = @ + 1]
    /\ pc' = "split_for"
    /\ UNCHANGED <<obj, res, objects, text>>

\* SplitFile without its checks: the walk goes on to the end of the section
SplitFile_Unchecked ==
    /\ pc = "split_loop"
    /\ loc.current_address < loc.section_end
    /\ loc' = [loc EXCEPT !.current_address = loc.section_end, !.file_iter = <<>>]
    /\ UNCHANGED <<obj, pc, res, objects, text>>

\* one turn of the loop: the next split's symbols and section go to its unit's object
SplitFile ==
    /\ pc = "split_loop"
    /\ loc.current_address < loc.section_end
    /\ IF loc.file_iter = <<>>
       THEN Fail("No file found") /\ UNCHANGED <<loc, objects>>
       ELSE \E section \in {obj.sections[loc.section_idx]},
               file_addr \in {Head(loc.file_iter)[1]},
               split \in {Head(loc.file_iter)[2]},
               file_end \in {IF Tail(loc.file_iter) # <<>>
                             THEN Min(Tail(loc.file_iter)[1][1], loc.section_end)
                             ELSE loc.section_end} :
            \E file_idx \in {name_to_obj(obj.link_order, split.unit)},
               align \in {SplitAlign(split, section, loc.current_address)} :
               IF file_addr > loc.current_address
               THEN Fail("Gap in files") /\ UNCHANGED <<loc, objects>>
               ELSE IF file_idx = None
               THEN Fail("Unit not in link order") /\ UNCHANGED <<loc, objects>>
               ELSE IF loc.current_address % align # 0
               THEN Fail("Invalid alignment for split") /\ UNCHANGED <<loc, objects>>
               ELSE \E file \in {objects[Unwrap(file_idx)]} :
                    \E added \in {AddSectionSymbols(obj,
                                     symbols_for_range(obj, loc.current_address, file_end),
                                     split, loc.current_address, Len(file.sections) + 1,
                                     file.symbols, loc.object_symbols[Unwrap(file_idx)],
                                     loc.current_address)} :
                       /\ objects' = [objects EXCEPT ![Unwrap(file_idx)] =
                                         EmitFile(obj, file, added, section, split,
                                                  loc.current_address, file_end, align)]
                       /\ loc' = [loc EXCEPT
                                     !.object_symbols[Unwrap(file_idx)] = added.symbol_idxs,
                                     !.file_iter = Tail(@),
                                     !.current_address = file_end]
                       /\ UNCHANGED <<pc, res>>
    /\ UNCHANGED <<obj, text>>

\* every relocation of every section of every output object, in the order the
\* code visits them: <<obj_idx, section, reloc>>
RelocWork(objs) ==
    Flatten([k \in 1..Len(objs) |->
        Flatten([s \in 1..Len(objs[k].sections) |->
            [r \in 1..Len(objs[k].sections[s].relocations) |-> <<k, s, r>>]])])

\* match symbol_idxs[reloc.target_symbol] { Some(..) => .., None => .. } for one
\* relocation; st is [err, objects, object_symbols, globalize_symbols]. In an
\* output section named extabindex an extern target is looked up with split_for
\* (bail! when there is none) and section_at(target_addr)? before log::error!
RelocStep(o, st, item) ==
    LET out_obj == st.objects[item[1]]
        section == out_obj.sections[item[2]]
        reloc == section.relocations[item[3]]
        target_sym == o.symbols[reloc.target_symbol]
    IN  IF IsSome(st.object_symbols[item[1]][reloc.target_symbol])
        THEN [st EXCEPT !.objects[item[1]].sections[item[2]].relocations[item[3]].target_symbol =
                            Unwrap(st.object_symbols[item[1]][reloc.target_symbol])]
        ELSE [err |-> IF section.name # Name.extabindex THEN ""
                      ELSE IF split_for(o, target_sym.address) = None
                      THEN "Bad extabindex relocation"
                      ELSE IF section_at(o, Unwrap(split_for(o, target_sym.address))[1]) = None
                      THEN "Failed to locate section"
                      ELSE "",
              objects |-> [st.objects EXCEPT
                  ![item[1]].symbols = Append(@, ExternStub(target_sym)),
                  ![item[1]].sections[item[2]].relocations[item[3]].target_symbol =
                      Len(out_obj.symbols) + 1],
              object_symbols |-> [st.object_symbols EXCEPT
                  ![item[1]][reloc.target_symbol] = Some(Len(out_obj.symbols) + 1)],
              globalize_symbols |->
                  IF is_local(target_sym.flags)
                  THEN Append(st.globalize_symbols, <<reloc.target_symbol, NewName(target_sym)>>)
                  ELSE st.globalize_symbols]

\* RelocScan that stops after the first relocation
RelocScan_FirstOnly(o, st, work) == IF work = <<>> THEN st ELSE RelocStep(o, st, Head(work))

RECURSIVE RelocScan(_, _, _)
RelocScan(o, st, work) ==
    IF work = <<>> \/ st.err # "" THEN st
    ELSE RelocScan(o, RelocStep(o, st, Head(work)), Tail(work))

\* // Update relocations
UpdateRelocations ==
    /\ pc = "split_for"
    /\ loc.section_idx > Len(obj.sections)
    /\ \E st \in {RelocScan(obj, [err |-> "", objects |-> objects,
                                  object_symbols |-> loc.object_symbols,
                                  globalize_symbols |-> loc.globalize_symbols],
                            RelocWork(objects))} :
          IF st.err # ""
          THEN Fail(st.err) /\ UNCHANGED <<loc, objects>>
          ELSE /\ objects' = st.objects
               /\ loc' = [loc EXCEPT !.object_symbols = st.object_symbols,
                                     !.globalize_symbols = st.globalize_symbols]
               /\ pc' = "globalize"
               /\ UNCHANGED res
    /\ UNCHANGED <<obj, text>>

\* Globalized with the scope left as it was
Globalized_ScopeKept(symbol, new_name) == [symbol EXCEPT !.name = new_name]

\* symbol.name = new_name; if symbol.flags.is_local() { set_scope(Global) }
Globalized(symbol, new_name) ==
    [symbol EXCEPT !.name = new_name,
                   !.flags = IF is_local(@) THEN set_scope_global(@) ELSE @]

\* for (globalize_idx, new_name) in &globalize_symbols, for one output object
RECURSIVE GlobalizeObject(_, _, _)
GlobalizeObject(out_obj, symbol_map, globalize_symbols) ==
    IF globalize_symbols = <<>> THEN out_obj
    ELSE GlobalizeObject(
            IF IsSome(symbol_map[Head(globalize_symbols)[1]])
            THEN [out_obj EXCEPT !.symbols[Unwrap(symbol_map[Head(globalize_symbols)[1]])] =
                                     Globalized(@, Head(globalize_symbols)[2])]
            ELSE out_obj,
            symbol_map, Tail(globalize_symbols))

\* // Upgrade local symbols to global if necessary
Globalize ==
    /\ pc = "globalize"
    /\ objects' = [k \in 1..Len(objects) |->
                      GlobalizeObject(objects[k], loc.object_symbols[k], loc.globalize_symbols)]
    /\ pc' = "extern"
    /\ UNCHANGED <<obj, loc, res, text>>

\* the symbols of one output object after the linker-generated ones were replaced
ExternedSymbols(symbols) ==
    [i \in 1..Len(symbols) |->
        IF is_linker_generated_label(symbols[i].name) /\ IsSome(symbols[i].section)
        THEN ExternStub(symbols[i])
        ELSE symbols[i]]

\* // Extern linker generated symbols; Ok(objects)
ExternLinkerGenerated ==
    /\ pc = "extern"
    /\ objects' = [k \in 1..Len(objects) |->
                      [objects[k] EXCEPT !.symbols = ExternedSymbols(@)]]
    /\ pc' = "done"
    /\ res' = [ok |-> TRUE, err |-> ""]
    /\ UNCHANGED <<obj, loc, text>>

split_obj ==
    \/ SplitCall \/ SplitFor \/ SplitBreak \/ SplitFile
    \/ UpdateRelocations \/ Globalize \/ ExternLinkerGenerated

-----------------------------------------------------------------------------
(* The images split_obj is run on *)

\* a relocation per word of .text that has a target (0: none)
SplitRelocs(targets) ==
    [k \in 1..Len(SelectSeq(<<0, 4>>, LAMBDA a : targets[a] # 0)) |->
        [kind |-> "Absolute", addend |-> 0,
         address |-> SelectSeq(<<0, 4>>, LAMBDA a : targets[a] # 0)[k],
         target_symbol |-> targets[SelectSeq(<<0, 4>>, LAMBDA a : targets[a] # 0)[k]]]]

\* .text holds two functions of one word, .bss a label at its start and an object
SplitSections(targets) ==
    << [MkSection(Name.text, "Code", 0, <<1, 1>>) EXCEPT !.relocations = SplitRelocs(targets)],
       [MkSection(Name.bss, "Bss", 8, <<0, 0>>) EXCEPT !.data = <<>>] >>

SplitSymbols(name2, scope) ==
    << MkSymbol(Name.foo, 0, Some(1), 4, "Function", {scope[1]}),
       MkSymbol(name2, 4, Some(1), 4, "Function", {scope[2]}),
       [MkSymbol(Name.f_bss, 8, Some(2), 0, "Object", {"Global"}) EXCEPT !.size_known = FALSE],
       MkSymbol(Name.baz, 12, Some(2), 4, "Object", {scope[3]}) >>

\* the .bss splits that are common are the last ones (update_common_splits); the
\* link order names the units the splits use, in the order of their first use,
\* or all but the last of them
InitSplit ==
    /\ \E f \in [{0, 4, 8, 12} -> 0..MaxUnits] :
       \E c \in [{8, 12} -> BOOLEAN] :
       \E name2 \in {Name.foo, Name.bar} :
       \E scope \in [1..3 -> {"Local", "Global"}] :
       \E targets \in [{0, 4} -> 0..4] :
       \E missing \in {0, 1} :
       \E kind \in {"Executable", "Relocatable"} :
          /\ f[0] # 0
          /\ FirstUseInOrder(f)
          /\ \A a \in {8, 12} : f[a] = 0 => ~c[a]
          /\ (c[8] /\ f[12] # 0) => c[12]
          /\ targets[0] \in {0, 2, 4} /\ targets[4] \in {0, 1, 3}
          /\ (missing = 1 \/ kind = "Relocatable") => (targets[0] = 0 /\ targets[4] = 0)
          /\ kind = "Relocatable" => missing = 0
          /\ obj = [MkImage(SplitSections(targets), SplitSymbols(name2, scope),
                            SplitsOfUnits(f, c))
                       EXCEPT !.kind = kind,
                              !.link_order =
                                 [k \in 1..(Cardinality({f[a] : a \in DOMAIN f} \ {0})
                                                - missing) |->
                                     [name |-> UnitNames[k], autogenerated |-> FALSE,
                                      comment_version |-> None]]]
    /\ pc = "split_call"
    /\ loc = [section_idx |-> 0]
    /\ res = [ok |-> FALSE, err |-> ""]
    /\ objects = <<>>
    /\ text = <<>>

SpecSplitObj == InitSplit /\ [][split_obj]_vars

-----------------------------------------------------------------------------
(* C3, C4, C8, C9: the objects split_obj returns *)

\* "{n}_{a:08X}", or n itself when it already ends in "{a:08X}"
ClaimedName(symbol) ==
    IF EndsWith(symbol.name, ZeroPad(HexDigits(symbol.address), 8)) THEN symbol.name
    ELSE symbol.name \o <<"_">> \o ZeroPad(HexDigits(symbol.address), 8)

\* the relocation of the image an output relocation was made from: the one at
\* the same address
OrigReloc(out_section, reloc) ==
    LET section == obj.sections[Unwrap(section_at(obj, out_section.original_address))]
    IN  section.relocations[CHOOSE i \in 1..Len(section.relocations) :
            section.relocations[i].address = out_section.original_address + reloc.address]

\* the relocations of the output objects: <<obj_idx, section, reloc>>
OutRelocs ==
    {w \in (1..Len(objects)) \X (1..2) \X (1..2) :
        /\ w[2] <= Len(objects[w[1]].sections)
        /\ w[3] <= Len(objects[w[1]].sections[w[2]].relocations)}

\* the name the symbol an output relocation points at is to carry: the target's
\* own name until the globalisation pass, the globalised name after it
ExpectedTargetName(target) ==
    IF /\ pc # "globalize"
       /\ \E i \in 1..Len(loc.globalize_symbols) : loc.globalize_symbols[i][1] = target
    THEN ClaimedName(obj.symbols[target])
    ELSE obj.symbols[target].name

\* C3: once split_obj has rewritten the relocations, every relocation of every
\* output object points at a valid index of that object's own symbol table, and
\* the symbol there carries the name of the image symbol the original relocation
\* targeted (its globalised name once the globalisation pass has renamed it).
C3_RelocTargetsOwnSymbol ==
    pc \in {"globalize", "extern", "done"} =>
        \A w \in OutRelocs :
            LET out_obj == objects[w[1]]
                reloc == out_obj.sections[w[2]].relocations[w[3]]
            IN  /\ reloc.target_symbol \in 1..Len(out_obj.symbols)
                /\ out_obj.symbols[reloc.target_symbol].name =
                       ExpectedTargetName(OrigReloc(out_obj.sections[w[2]], reloc).target_symbol)

\* C3 witness: split_obj returned; one relocation points at an extern stub added
\* for it, another at a symbol its object defines, and an object that holds
\* relocations had its common symbols shifted by a padding symbol
C3_Witness ==
    /\ pc = "done"
    /\ \E w \in OutRelocs, v \in OutRelocs :
          LET sym(x) == objects[x[1]].symbols[
                            objects[x[1]].sections[x[2]].relocations[x[3]].target_symbol]
          IN  /\ sym(w) = ExternStub(sym(w))
              /\ IsSome(sym(v).section) \/ "Common" \in sym(v).flags
    /\ \E k \in 1..Len(objects) : \E i \in 1..Len(objects[k].symbols) :
          /\ SubSeq(objects[k].symbols[i].name, 1, 3) = Name.pad
          /\ \E w \in OutRelocs : w[1] = k

\* C4 (as claimed): no object split_obj returns holds a symbol with a
\* linker-generated name other than as an extern stub: name and demangled name
\* kept, every other field defaulted.
C4_NoLinkerGeneratedDefinition ==
    (pc = "done" /\ res.ok) =>
        \A k \in 1..Len(objects) : \A i \in 1..Len(objects[k].symbols) :
            is_linker_generated_label(objects[k].symbols[i].name) =>
                objects[k].symbols[i] = ExternStub(objects[k].symbols[i])

\* the split that owns an address in split_obj's walk: the last split of the
\* address's section that starts at or before it
OwnerSplit(addr) ==
    LET i == section_at(obj, addr)
        ss == splits_for_range(obj, obj.sections[Unwrap(i)].address, addr + 1)
    IN  IF i = None THEN None
        ELSE IF addr >= end_for_section(obj, Unwrap(i)) \/ ss = <<>> THEN None
        ELSE Some(ss[Len(ss)][2])

\* the Local symbols defined in one object and referenced from another: <<s, A, B>>
CrossUnitLocals ==
    {t \in (1..Len(obj.symbols)) \X (1..Len(objects)) \X (1..Len(objects)) :
        /\ is_local(obj.symbols[t[1]].flags)
        /\ t[2] # t[3]
        /\ IsSome(OwnerSplit(obj.symbols[t[1]].address))
        /\ name_to_obj(obj.link_order,
                       Unwrap(OwnerSplit(obj.symbols[t[1]].address)).unit) = Some(t[2])
        /\ \E w \in OutRelocs :
              /\ w[1] = t[3]
              /\ OrigReloc(objects[t[3]].sections[w[2]],
                           objects[t[3]].sections[w[2]].relocations[w[3]]).target_symbol
                     = t[1]}

\* output object k holds the symbol under the name, scoped Global
HoldsGlobal(k, name) ==
    \E i \in 1..Len(objects[k].symbols) :
        /\ objects[k].symbols[i].name = name
        /\ "Global" \in objects[k].symbols[i].flags

\* C8 (as claimed): a Local symbol defined in the object of unit A and targeted
\* by a relocation in the object of another unit B is, in both objects, named
\* "{n}_{a:08X}" (n itself if it ends so) and scoped Global.
C8_GlobalInBothObjects ==
    (pc = "done" /\ res.ok) =>
        \A t \in CrossUnitLocals :
            /\ HoldsGlobal(t[2], ClaimedName(obj.symbols[t[1]]))
            /\ HoldsGlobal(t[3], ClaimedName(obj.symbols[t[1]]))

\* the symbol output object k holds for symbol s of the image
SymbolIn(k, s) == objects[k].symbols[Unwrap(loc.object_symbols[k][s])]

\* C8 (amended): a Local symbol defined in the object of unit A and targeted by
\* a relocation in the object of another unit B is, in both objects, named
\* "{n}_{a:08X}" (n itself if it ends so) and no longer Local; it is scoped
\* Global in A when A defines it in a section (its split is not common), and is
\* an extern stub without a scope of its own in B.
C8_GlobalisedInBothObjects ==
    (pc = "done" /\ res.ok) =>
        \A t \in CrossUnitLocals :
            /\ IsSome(loc.object_symbols[t[2]][t[1]])
            /\ IsSome(loc.object_symbols[t[3]][t[1]])
            /\ SymbolIn(t[2], t[1]).name = ClaimedName(obj.symbols[t[1]])
            /\ SymbolIn(t[3], t[1]).name = ClaimedName(obj.symbols[t[1]])
            /\ ~is_local(SymbolIn(t[2], t[1]).flags)
            /\ ~is_local(SymbolIn(t[3], t[1]).flags)
            /\ ~Unwrap(OwnerSplit(obj.symbols[t[1]].address)).common
                   => "Global" \in SymbolIn(t[2], t[1]).flags
            /\ SymbolIn(t[3], t[1]) = ExternStub(SymbolIn(t[3], t[1]))

\* C8 witness: split_obj returned, and a Local function of one unit is
\* referenced from another unit, as is a Local object of a common split
C8_Witness ==
    /\ pc = "done" /\ res.ok
    /\ \E t \in CrossUnitLocals : ~Unwrap(OwnerSplit(obj.symbols[t[1]].address)).common
    /\ \E t \in CrossUnitLocals : Unwrap(OwnerSplit(obj.symbols[t[1]].address)).common

\* the symbols of the image that one unit defines carry different names
InputNamesUniquePerUnit ==
    \A s, t \in 1..Len(obj.symbols) :
        (/\ s # t
         /\ IsSome(OwnerSplit(obj.symbols[s].address))
         /\ IsSome(OwnerSplit(obj.symbols[t].address))
         /\ Unwrap(OwnerSplit(obj.symbols[s].address)).unit
                = Unwrap(OwnerSplit(obj.symbols[t].address)).unit)
            => obj.symbols[s].name # obj.symbols[t].name

\* C9 (as claimed): after split_obj, its globalisation pass included, no two
\* symbols of one returned object carry the same name (the image's units each
\* naming their own symbols differently).
C9_NamesUniquePerObject ==
    (pc = "done" /\ res.ok /\ InputNamesUniquePerUnit) =>
        \A k \in 1..Len(objects) : \A i, j \in 1..Len(objects[k].symbols) :
            i # j => objects[k].symbols[i].name # objects[k].symbols[j].name

-----------------------------------------------------------------------------
(* config.rs: write_symbols and parse_symbol_line *)

\* A line is held as the groups SYMBOL_LINE captures from it: name, section,
\* addr, and attrs already split at ' '.  Every group is text (a sequence of
\* characters): numbers are formatted and parsed digit by digit, kinds, scopes
\* and data kinds go through their tables.

HexLower == <<"0","1","2","3","4","5","6","7","8","9","a","b","c","d","e","f">>

\* format!("{:#X}", n)
FormatHexAlt(n) == <<"0", "x">> \o HexDigits(n)

\* str::trim_start_matches("0x")
RECURSIVE TrimStart0x(_)
TrimStart0x(s) ==
    IF Len(s) >= 2 /\ SubSeq(s, 1, 2) = <<"0", "x">> THEN TrimStart0x(SubSeq(s, 3, Len(s))) ELSE s

\* char::to_digit(16)
HexDigitValue(c) ==
    IF \E d \in 1..16 : HexChar[d] = c THEN Some((CHOOSE d \in 1..16 : HexChar[d] = c) - 1)
    ELSE IF \E d \in 1..16 : HexLower[d] = c
    THEN Some((CHOOSE d \in 1..16 : HexLower[d] = c) - 1)
    ELSE None

\* u32::from_str_radix(digits, 16) from an accumulator on: None is Err (a
\* character that is no digit, or a value past u32: acc * 16 overflows from 2^28)
RECURSIVE FromStrRadix16(_, _)
FromStrRadix16(digits, acc) ==
    IF digits = <<>> THEN Some(acc)
    ELSE IF HexDigitValue(Head(digits)) = None THEN None
    ELSE IF acc >= 268435456 THEN None
    ELSE FromStrRadix16(Tail(digits), acc * 16 + Unwrap(HexDigitValue(Head(digits))))

\* parse_hex: None is Err(ParseIntError)
parse_hex(s) ==
    IF TrimStart0x(s) = <<>> THEN None ELSE FromStrRadix16(TrimStart0x(s), 0)

symbol_kind_to_str(kind) ==
    CASE kind = "Unknown" -> <<"l","a","b","e","l">>
      [] kind = "Function" -> <<"f","u","n","c","t","i","o","n">>
      [] kind = "Object" -> <<"o","b","j","e","c","t">>
      [] kind = "Section" -> <<"s","e","c","t","i","o","n">>

symbol_data_kind_to_str(kind) ==
    CASE kind = "Unknown" -> None
      [] kind = "Byte" -> Some(<<"b","y","t","e">>)
      [] kind = "Byte2" -> Some(<<"2","b","y","t","e">>)
      [] kind = "Byte4" -> Some(<<"4","b","y","t","e">>)
      [] kind = "Byte8" -> Some(<<"8","b","y","t","e">>)
      [] kind = "Float" -> Some(<<"f","l","o","a","t">>)
      [] kind = "Double" -> Some(<<"d","o","u","b","l","e">>)
      [] kind = "String" -> Some(<<"s","t","r","i","n","g">>)
      [] kind = "String16" -> Some(<<"w","s","t","r","i","n","g">>)
      [] kind = "StringTable" -> Some(<<"s","t","r","i","n","g","_","t","a","b","l","e">>)
      [] kind = "String16Table" -> Some(<<"w","s","t","r","i","n","g","_","t","a","b","l","e">>)

symbol_kind_from_str(s) ==
    CASE s = <<"l","a","b","e","l">> -> Some("Unknown")
      [] s = <<"f","u","n","c","t","i","o","n">> -> Some("Function")
      [] s = <<"o","b","j","e","c","t">> -> Some("Object")
      [] s = <<"s","e","c","t","i","o","n">> -> Some("Section")
      [] OTHER -> None

symbol_flags_to_str(flags) ==
    IF "Common" \in flags THEN Some(<<"c","o","m","m","o","n">>)
    ELSE IF "Weak" \in flags THEN Some(<<"w","e","a","k">>)
    ELSE IF "Global" \in flags THEN Some(<<"g","l","o","b","a","l">>)
    ELSE IF "Local" \in flags THEN Some(<<"l","o","c","a","l">>)
    ELSE None

symbol_flags_from_str(s) ==
    CASE s = <<"c","o","m","m","o","n">> -> Some("Common")
      [] s = <<"w","e","a","k">> -> Some("Weak")
      [] s = <<"g","l","o","b","a","l">> -> Some("Global")
      [] s = <<"l","o","c","a","l">> -> Some("Local")
      [] OTHER -> None

symbol_data_kind_from_str(s) ==
    CASE s = <<"b","y","t","e">> -> Some("Byte")
      [] s = <<"2","b","y","t","e">> -> Some("Byte2")
      [] s = <<"4","b","y","t","e">> -> Some("Byte4")
      [] s = <<"8","b","y","t","e">> -> Some("Byte8")
      [] s = <<"f","l","o","a","t">> -> Some("Float")
      [] s = <<"d","o","u","b","l","e">> -> Some("Double")
      [] s = <<"s","t","r","i","n","g">> -> Some("String")
      [] s = <<"w","s","t","r","i","n","g">> -> Some("String16")
      [] s = <<"s","t","r","i","n","g","_","t","a","b","l","e">> -> Some("StringTable")
      [] s = <<"w","s","t","r","i","n","g","_","t","a","b","l","e">> -> Some("String16Table")
      [] OTHER -> None

\* the attribute words of a symbols file
Str ==
    [type |-> <<"t","y","p","e">>,
     size |-> <<"s","i","z","e">>,
     scope |-> <<"s","c","o","p","e">>,
     align |-> <<"a","l","i","g","n">>,
     data |-> <<"d","a","t","a">>,
     hidden |-> <<"h","i","d","d","e","n">>,
     noreloc |-> <<"n","o","r","e","l","o","c">>]

\* write!(w, " {}:{}", key, value)
Attr(key, value) == key \o <<":">> \o value

\* an attribute written under a condition
AttrIf(cond, attr) == IF cond THEN <<attr>> ELSE <<>>

\* write_symbol: the line written for the symbol
write_symbol(o, symbol) ==
    [name |-> symbol.name,
     section |-> IF IsSome(symbol.section) /\ Unwrap(symbol.section) \in 1..Len(o.sections)
                 THEN Some(o.sections[Unwrap(symbol.section)].name) ELSE None,
     addr |-> <<"0", "x">> \o ZeroPad(HexDigits(symbol.address), 8),
     attrs |-> <<Attr(Str.type, symbol_kind_to_str(symbol.kind))>>
               \o AttrIf(symbol.size_known /\ symbol.size > 0,
                         Attr(Str.size, FormatHexAlt(symbol.size)))
               \o AttrIf(IsSome(symbol_flags_to_str(symbol.flags)),
                         Attr(Str.scope, Unwrap(symbol_flags_to_str(symbol.flags))))
               \o AttrIf(IsSome(symbol.align), Attr(Str.align, FormatHexAlt(Unwrap(symbol.align))))
               \o AttrIf(IsSome(symbol_data_kind_to_str(symbol.data_kind)),
                         Attr(Str.data, Unwrap(symbol_data_kind_to_str(symbol.data_kind))))
               \o AttrIf("Hidden" \in symbol.flags, Str.hidden)
               \o AttrIf(symbol.address \in DOMAIN o.blocked_ranges, Str.noreloc)]

\* obj.symbols.for_range(..): every symbol, by address
all_symbols(o) ==
    symbols_for_range(o, 0, 1 + Len(o.symbols)
        + (CHOOSE m \in {o.symbols[i].address : i \in 1..Len(o.symbols)} \cup {0} :
              \A i \in 1..Len(o.symbols) : o.symbols[i].address <= m))

\* write_symbols: the lines written, Section symbols and symbols without a
\* section left out
write_symbols(o) ==
    [k \in 1..Len(SelectSeq(all_symbols(o), LAMBDA i :
                     ~(o.symbols[i].kind = "Section" \/ o.symbols[i].section = None))) |->
        write_symbol(o, o.symbols[SelectSeq(all_symbols(o), LAMBDA i :
                     ~(o.symbols[i].kind = "Section" \/ o.symbols[i].section = None))[k]])]

\* attr.split_once(':'): None, or <<name, value>> around the first ':'
split_once(attr) ==
    IF \A i \in 1..Len(attr) : attr[i] # ":" THEN None
    ELSE Some(<<SubSeq(attr, 1, (CHOOSE i \in 1..Len(attr) :
                        attr[i] = ":" /\ \A j \in 1..(i - 1) : attr[j] # ":") - 1),
                SubSeq(attr, (CHOOSE i \in 1..Len(attr) :
                        attr[i] = ":" /\ \A j \in 1..(i - 1) : attr[j] # ":") + 1, Len(attr))>>)

\* cwdemangle::demangle: None for a name that is not mangled, as every name of
\* the images explored
demangle(name) == None

\* "name:value" of parse_symbol_line's loop; st is [err, symbol, blocked_ranges]
KeyedAttr(st, name, value) ==
    IF name = Str.type
    THEN IF symbol_kind_from_str(value) = None THEN [st EXCEPT !.err = "Unknown symbol type"]
         ELSE [st EXCEPT !.symbol.kind = Unwrap(symbol_kind_from_str(value))]
    ELSE IF name = Str.size
    THEN IF parse_hex(value) = None THEN [st EXCEPT !.err = "ParseIntError"]
         ELSE [st EXCEPT !.symbol.size = Unwrap(parse_hex(value)), !.symbol.size_known = TRUE]
    ELSE IF name = Str.scope
    THEN IF symbol_flags_from_str(value) = None THEN [st EXCEPT !.err = "Unknown symbol scope"]
         ELSE [st EXCEPT !.symbol.flags = @ \cup {Unwrap(symbol_flags_from_str(value))}]
    ELSE IF name = Str.align
    THEN IF parse_hex(value) = None THEN [st EXCEPT !.err = "ParseIntError"]
         ELSE [st EXCEPT !.symbol.align = Some(Unwrap(parse_hex(value)))]
    ELSE IF name = Str.data
    THEN IF symbol_data_kind_from_str(value) = None
         THEN [st EXCEPT !.err = "Unknown symbol data type"]
         ELSE [st EXCEPT !.symbol.data_kind = Unwrap(symbol_data_kind_from_str(value))]
    ELSE [st EXCEPT !.err = "Unknown symbol attribute"]

\* an attribute without ':' of parse_symbol_line's loop
BareAttr(st, attr) ==
    IF attr = Str.hidden THEN [st EXCEPT !.symbol.flags = @ \cup {"Hidden"}]
    ELSE IF attr = Str.noreloc
    THEN IF st.symbol.size = 0
         THEN [st EXCEPT !.err = "requires size != 0 with noreloc"]
         ELSE [st EXCEPT !.blocked_ranges =
                   MapPut(@, st.symbol.address, st.symbol.address + st.symbol.size)]
    ELSE [st EXCEPT !.err = "Unknown symbol attribute"]

\* for attr in attrs { .. }
RECURSIVE AttrScan(_, _)
AttrScan(st, attrs) ==
    IF attrs = <<>> \/ st.err # "" THEN st
    ELSE AttrScan(IF IsSome(split_once(Head(attrs)))
                  THEN KeyedAttr(st, Unwrap(split_once(Head(attrs)))[1],
                                 Unwrap(split_once(Head(attrs)))[2])
                  ELSE BareAttr(st, Head(attrs)),
                  Tail(attrs))

\* parse_symbol_line of a line SYMBOL_LINE matches: [err, symbol, blocked_ranges]
parse_symbol_line(line, o) ==
    IF parse_hex(line.addr) = None
    THEN [err |-> "ParseIntError", symbol |-> DefaultSymbol, blocked_ranges |-> o.blocked_ranges]
    ELSE AttrScan([err |-> "",
                   symbol |-> [DefaultSymbol EXCEPT
                                  !.name = line.name,
                                  !.demangled_name = demangle(line.name),
                                  !.address = Unwrap(parse_hex(line.addr)),
                                  !.section = section_at(o, Unwrap(parse_hex(line.addr)))],
                   blocked_ranges |-> o.blocked_ranges],
                  line.attrs)

\* write_symbols(w, obj)
WriteSymbols ==
    /\ pc = "write_call"
    /\ text' = write_symbols(obj)
    /\ loc' = [next |-> 1,
               read |-> [obj EXCEPT !.symbols = <<>>, !.blocked_ranges = EmptyMap]]
    /\ pc' = "parse_line"
    /\ UNCHANGED <<obj, res, objects>>

\* parse_symbol_line(line, obj)? of the next line written, read into the image
\* loc.read; the symbol it returns is added to that image. The blocked ranges
\* are written to the image while the line is scanned, also when a later
\* attribute fails
ParseLine ==
    /\ pc = "parse_line"
    /\ loc.next <= Len(text)
    /\ \E r \in {parse_symbol_line(text[loc.next], loc.read)} :
          IF r.err # ""
          THEN Fail(r.err) /\ loc' = [loc EXCEPT !.read.blocked_ranges = r.blocked_ranges]
          ELSE /\ loc' = [next |-> loc.next + 1,
                          read |-> [loc.read EXCEPT !.symbols = Append(@, r.symbol),
                                                    !.blocked_ranges = r.blocked_ranges]]
               /\ UNCHANGED <<pc, res>>
    /\ UNCHANGED <<obj, objects, text>>

\* the last line was read
ParseDone ==
    /\ pc = "parse_line"
    /\ loc.next > Len(text)
    /\ pc' = "done"
    /\ res' = [ok |-> TRUE, err |-> ""]
    /\ UNCHANGED <<obj, loc, objects, text>>

-----------------------------------------------------------------------------
(* The images whose symbols are written and read back *)

MaxSyms == 2

SymSections ==
    << MkSection(Name.text, "Code", 0, <<1, 1>>),
       MkSection(Name.data, "Data", 8, <<1, 1>>) >>

\* the attributes a symbol of the images carries, past its name and address
SymShapes ==
    { [kind |-> "Function", sized |-> TRUE, size |-> 4, flags |-> {"Global"},
       align |-> None, data_kind |-> "Unknown", absolute |-> FALSE],
      [kind |-> "Object", sized |-> TRUE, size |-> 4, flags |-> {"Local"},
       align |-> Some(8), data_kind |-> "Byte4", absolute |-> FALSE],
      [kind |-> "Object", sized |-> TRUE, size |-> 4, flags |-> {"Weak", "Hidden"},
       align |-> None, data_kind |-> "String", absolute |-> FALSE],
      [kind |-> "Unknown", sized |-> FALSE, size |-> 0, flags |-> {},
       align |-> None, data_kind |-> "Unknown", absolute |-> FALSE],
      [kind |-> "Object", sized |-> TRUE, size |-> 0, flags |-> {"Common"},
       align |-> None, data_kind |-> "Unknown", absolute |-> FALSE],
      [kind |-> "Section", sized |-> FALSE, size |-> 0, flags |-> {},
       align |-> None, data_kind |-> "Unknown", absolute |-> FALSE],
      [kind |-> "Object", sized |-> TRUE, size |-> 4, flags |-> {"Global"},
       align |-> None, data_kind |-> "Unknown", absolute |-> TRUE] }

SymOf(name, address, shape) ==
    [DefaultSymbol EXCEPT
        !.name = name, !.address = address,
        !.section = IF shape.absolute THEN None ELSE section_at([sections |-> SymSections], address),
        !.size = shape.size, !.size_known = shape.sized, !.flags = shape.flags,
        !.kind = shape.kind, !.align = shape.align, !.data_kind = shape.data_kind]

SymNames == <<Name.foo, Name.bar, Name.baz, Name.e, Name.i>>

\* the blocked range a "noreloc" symbol left at its address when the image was
\* read: [address, address + size) of a symbol of known positive size
BlockedOf(symbols, noreloc) ==
    [a \in {symbols[k].address : k \in noreloc} |->
        a + symbols[CHOOSE k \in noreloc : symbols[k].address = a].size]

InitSym ==
    /\ \E n \in 0..MaxSyms :
       \E addr \in [1..n -> {0, 4, 8}] :
       \E shape \in [1..n -> SymShapes] :
       \E noreloc \in SUBSET (1..n) :
          /\ \A k \in noreloc : shape[k].sized /\ shape[k].size > 0 /\ ~shape[k].absolute
          /\ \A j, k \in noreloc : j # k => addr[j] # addr[k]
          /\ obj = [MkImage(SymSections,
                            [k \in 1..n |-> SymOf(SymNames[k], addr[k], shape[k])], EmptyMap)
                       EXCEPT !.blocked_ranges =
                           BlockedOf([k \in 1..n |-> SymOf(SymNames[k], addr[k], shape[k])],
                                     noreloc)]
    /\ pc = "write_call"
    /\ loc = [next |-> 0]
    /\ res = [ok |-> FALSE, err |-> ""]
    /\ objects = <<>>
    /\ text = <<>>

SpecSym == InitSym /\ [][WriteSymbols \/ ParseLine \/ ParseDone]_vars

-----------------------------------------------------------------------------
(* C10: the symbols read back *)

\* the scope flags of a symbol
Scope(flags) == flags \cap {"Global", "Local", "Weak", "Common"}

\* the attributes the round trip is to keep
SameAttributes(a, b) ==
    /\ a.name = b.name /\ a.address = b.address /\ a.section = b.section
    /\ a.kind = b.kind /\ a.size = b.size /\ a.size_known = b.size_known
    /\ Scope(a.flags) = Scope(b.flags)
    /\ ("Hidden" \in a.flags) = ("Hidden" \in b.flags)
    /\ a.align = b.align /\ a.data_kind = b.data_kind

\* C10 (as claimed): the lines write_symbols writes for an image are all read
\* by parse_symbol_line, and they give back every symbol of the image with the
\* same name, address, section, kind, size, size-known flag, scope, hidden flag,
\* alignment and data kind, and the same blocked (noreloc) ranges.
C10_SymbolsRoundTrip ==
    pc \in {"done", "failed"} =>
        /\ pc = "done"
        /\ Len(loc.read.symbols) = Len(obj.symbols)
        /\ \A k \in 1..Len(obj.symbols) :
              k <= Len(loc.read.symbols) =>
                  SameAttributes(loc.read.symbols[k], obj.symbols[all_symbols(obj)[k]])
        /\ loc.read.blocked_ranges = obj.blocked_ranges

-----------------------------------------------------------------------------
(* C20: sections whose splits leave addresses uncovered *)

\* an address of [section start, end_for_section) of section i that lies in no
\* split of the section, a split reaching from its start to the start of the
\* next split of the section or to end_for_section
Uncovered(o, i) ==
    LET section_end == end_for_section(o, i)
        ss == splits_for_range(o, o.sections[i].address, section_end)
    IN  \E x \in o.sections[i].address..(section_end - 1) :
            \A k \in 1..Len(ss) :
                ~(ss[k][1] <= x /\ x < (IF k < Len(ss) THEN ss[k + 1][1] ELSE section_end))

-----------------------------------------------------------------------------
(* config.rs: write_splits, parse_split_line and apply_splits *)

\* A line of a splits file is held as its words, split at white space: a unit
\* line is the word "name:", a section line is the section's name followed by
\* its attributes, the empty line has no word.

\* the attribute words of a splits file
SplitStr ==
    [start |-> <<"s","t","a","r","t">>,
     end |-> <<"e","n","d">>,
     align |-> <<"a","l","i","g","n">>,
     rename |-> <<"r","e","n","a","m","e">>,
     common |-> <<"c","o","m","m","o","n">>]

\* write_splits, the lines of one unit: "unit:", one line per split of the unit
\* with start and end as {:#010X}, and an empty line; None is the Err of
\* obj.section_at(addr)?
write_unit_splits(o, unit, every) ==
    LET mine == SelectSeq([k \in 1..Len(every) |-> k], LAMBDA k : every[k][2].unit = unit)
        end(k) == IF every[k][2].end > 0 THEN every[k][2].end
                  ELSE IF k < Len(every) THEN every[k + 1][1] ELSE 0
    IN  IF \E k \in 1..Len(mine) : section_at(o, every[mine[k]][1]) = None THEN None
        ELSE Some(<< <<unit \o <<":">> >> >>
                  \o [k \in 1..Len(mine) |->
                        << o.sections[Unwrap(section_at(o, every[mine[k]][1]))].name,
                           Attr(SplitStr.start,
                                <<"0", "x">> \o ZeroPad(HexDigits(every[mine[k]][1]), 8)),
                           Attr(SplitStr.end,
                                <<"0", "x">> \o ZeroPad(HexDigits(end(mine[k])), 8)) >>]
                  \o << <<>> >>)

\* write_splits: the lines written for the units of the link order, or None
\* when a split lies in no section
write_splits(o) ==
    LET units == [u \in 1..Len(o.link_order) |->
                     write_unit_splits(o, o.link_order[u], all_splits(o))]
    IN  IF \E u \in 1..Len(units) : units[u] = None THEN None
        ELSE Some(Flatten([u \in 1..Len(units) |-> Unwrap(units[u])]))

\* u32::from_str from an accumulator on: None is Err
RECURSIVE FromStr10(_, _)
FromStr10(digits, acc) ==
    IF digits = <<>> THEN Some(acc)
    ELSE IF HexDigitValue(Head(digits)) = None \/ Unwrap(HexDigitValue(Head(digits))) > 9
    THEN None
    ELSE IF acc >= 214748364 THEN None
    ELSE FromStr10(Tail(digits), acc * 10 + Unwrap(HexDigitValue(Head(digits))))

\* for attr in attrs { .. } of parse_split_line; st is the SplitLine::Section
\* being built, [err, kind, name, start, end, align, common]
RECURSIVE SplitAttrScan(_, _)
SplitAttrScan(st, attrs) ==
    IF st.err # "" THEN st
    ELSE IF attrs = <<>>
    THEN IF IsSome(st.start) /\ IsSome(st.end) THEN st
         ELSE [st EXCEPT !.err = "Missing split attribute"]
    ELSE LET kv == split_once(Head(attrs))
             value == Unwrap(kv)[2]
         IN  SplitAttrScan(
                IF IsSome(kv)
                THEN IF Unwrap(kv)[1] = SplitStr.start
                     THEN IF parse_hex(value) = None THEN [st EXCEPT !.err = "ParseIntError"]
                          ELSE [st EXCEPT !.start = parse_hex(value)]
                     ELSE IF Unwrap(kv)[1] = SplitStr.end
                     THEN IF parse_hex(value) = None THEN [st EXCEPT !.err = "ParseIntError"]
                          ELSE [st EXCEPT !.end = parse_hex(value)]
                     ELSE IF Unwrap(kv)[1] = SplitStr.align
                     THEN IF value = <<>> \/ FromStr10(value, 0) = None
                          THEN [st EXCEPT !.err = "ParseIntError"]
                          ELSE [st EXCEPT !.align = FromStr10(value, 0)]
                     ELSE IF Unwrap(kv)[1] = SplitStr.rename THEN [st EXCEPT !.name = value]
                     ELSE [st EXCEPT !.err = "Unknown split attribute"]
                ELSE IF Head(attrs) = SplitStr.common
                     THEN [st EXCEPT !.common = TRUE,
                                     !.align = IF @ = None THEN Some(4) ELSE @]
                     ELSE [st EXCEPT !.err = "Unknown split attribute"],
                Tail(attrs))

\* parse_split_line: [err, kind, name, start, end, align, common], kind one of
\* "None", "Unit", "Section"
parse_split_line(line) ==
    LET blank == [err |-> "", kind |-> "None", name |-> <<>>, start |-> None, end |-> None,
                  align |-> None, common |-> FALSE]
        chars == Flatten(line)
        name == SubSeq(chars, 1, Len(chars) - 1)
    IN  IF line = <<>> THEN blank
        ELSE IF Head(line[1]) = "#" \/ (Len(line[1]) >= 2 /\ SubSeq(line[1], 1, 2) = <<"/", "/">>)
        THEN blank
        ELSE IF /\ Len(line) = 1 \/ (Len(line) = 2 /\ line[2] = <<":">>)
                /\ chars[Len(chars)] = ":"
                /\ name # <<>>
                /\ \A k \in 1..Len(name) : name[k] # ":"
        THEN [blank EXCEPT !.kind = "Unit", !.name = name]
        ELSE SplitAttrScan([blank EXCEPT !.kind = "Section", !.name = line[1]], Tail(line))

\* write_splits(w, obj), and the image the file is read into: the same
\* sections, no split yet
WriteSplits ==
    /\ pc = "write_call"
    /\ \E written \in {write_splits(obj)} :
          IF written = None
          THEN Fail("section_at") /\ UNCHANGED <<loc, text>>
          ELSE /\ text' = Unwrap(written)
               /\ loc' = [next |-> 1, state |-> None,
                          read |-> [obj EXCEPT !.splits = EmptyMap, !.link_order = <<>>,
                                               !.named_sections = EmptyMap]]
               /\ pc' = "apply_line"
               /\ UNCHANGED res
    /\ UNCHANGED <<obj, objects>>

\* apply_splits, one turn of for result in r.lines(): the match on the state
\* and the line parsed
ApplyLine ==
    /\ pc = "apply_line"
    /\ loc.next <= Len(text)
    /\ \E r \in {parse_split_line(text[loc.next])} :
          IF r.err # "" THEN Fail(r.err) /\ UNCHANGED loc
          ELSE IF r.kind = "Section" /\ loc.state = None
          THEN Fail("Section defined outside of unit") /\ UNCHANGED loc
          ELSE /\ loc' =
                    IF r.kind = "Unit"
                    THEN [next |-> loc.next + 1, state |-> Some(r.name),
                          read |-> [loc.read EXCEPT !.link_order = Append(@, r.name)]]
                    ELSE IF r.kind = "Section"
                    THEN [next |-> loc.next + 1, state |-> loc.state,
                          read |-> [add_split(loc.read, Unwrap(r.start),
                                              [unit |-> Unwrap(loc.state), end |-> Unwrap(r.end),
                                               align |-> r.align, common |-> r.common,
                                               autogenerated |-> FALSE])
                                       EXCEPT !.named_sections = MapPut(@, Unwrap(r.start), r.name)]]
                    ELSE [loc EXCEPT !.next = @ + 1]
               /\ UNCHANGED <<pc, res>>
    /\ UNCHANGED <<obj, objects, text>>

\* apply_splits returns Ok(()) after the last line
ApplyDone ==
    /\ pc = "apply_line"
    /\ loc.next > Len(text)
    /\ pc' = "done"
    /\ res' = [ok |-> TRUE, err |-> ""]
    /\ UNCHANGED <<obj, loc, objects, text>>

\* the images whose splits are written: .text [0, 8) and .data [8, 16), at each
\* of three addresses no split or a split of one of two units that is plain,
\* open-ended, aligned or common; every unit with a split is in the link order
InitSplits ==
    /\ \E unit \in [{0, 4, 8} -> {<<>>, Name.U, Name.V}] :
       \E shape \in [{0, 4, 8} -> {"plain", "open", "align", "common"}] :
       \E link_order \in {<<Name.U, Name.V>>, <<Name.V, Name.U>>} :
          /\ \A a \in {0, 4, 8} : unit[a] = <<>> => shape[a] = "plain"
          /\ obj = [MkImage(SymSections, <<>>,
                        [a \in {x \in {0, 4, 8} : unit[x] # <<>>} |->
                            << [unit |-> unit[a],
                                end |-> IF shape[a] = "open" THEN 0 ELSE a + 4,
                                align |-> IF shape[a] = "align" THEN Some(8)
                                          ELSE IF shape[a] = "common" THEN Some(4) ELSE None,
                                common |-> shape[a] = "common",
                                autogenerated |-> FALSE] >>])
                      EXCEPT !.link_order = SelectSeq(link_order,
                                  LAMBDA u : \E a \in {0, 4, 8} : unit[a] = u)]
    /\ pc = "write_call"
    /\ loc = [next |-> 0]
    /\ res = [ok |-> FALSE, err |-> ""]
    /\ objects = <<>>
    /\ text = <<>>

SpecSplits == InitSplits /\ [][WriteSplits \/ ApplyLine \/ ApplyDone]_vars

-----------------------------------------------------------------------------
(* C11: the splits read back *)

\* the section records of a unit in file order: start, end, align, common flag
\* and section name (the rename, if the image holds one for the address)
UnitRecords(o, unit) ==
    LET mine == SelectSeq(all_splits(o), LAMBDA e : e[2].unit = unit)
    IN  [k \in 1..Len(mine) |->
            [start |-> mine[k][1], end |-> mine[k][2].end, align |-> mine[k][2].align,
             common |-> mine[k][2].common,
             name |-> IF mine[k][1] \in DOMAIN o.named_sections
                      THEN o.named_sections[mine[k][1]]
                      ELSE o.sections[Unwrap(section_at(o, mine[k][1]))].name]]

\* C11 (as claimed): writing an image's splits with write_splits and reading the
\* lines back with apply_splits into an image with the same sections succeeds
\* and gives the same unit list in the same order and, for every unit, the same
\* section records in the same order: start, end, align, common flag and name.
C11_SplitsRoundTrip ==
    pc \in {"done", "failed"} =>
        /\ pc = "done"
        /\ loc.read.link_order = obj.link_order
        /\ \A u \in 1..Len(obj.link_order) :
              UnitRecords(loc.read, obj.link_order[u]) = UnitRecords(obj, obj.link_order[u])

-----------------------------------------------------------------------------
(* The images split_obj is run on: alignments, common splits, extabindex *)

\* ObjSplit { unit, end, align, common, autogenerated: false }
OutSplit(unit, end, align, common) ==
    [MkSplit(UnitNames[unit], end, common) EXCEPT !.align = align]

\* extabindex [8, 16) with a relocation at 8 to symbol target and one at 12 to
\* foo (target 0: no relocation), .data [16, 24) and .bss [24, 32)
OutSections(target) ==
    << [MkSection(Name.extabindex, "Data", 8, <<5, 6>>) EXCEPT !.relocations =
           IF target = 0 THEN <<>>
           ELSE << [kind |-> "Absolute", addend |-> 0, address |-> 8,
                    target_symbol |-> target],
                   [kind |-> "Absolute", addend |-> 0, address |-> 12, target_symbol |-> 3] >>],
       MkSection(Name.data, "Data", 16, <<7, 9>>),
       [MkSection(Name.bss, "Bss", 24, <<0, 0>>) EXCEPT !.data = <<>>] >>

\* an absolute symbol below the sections, the index record, two objects of
\* .data and two of .bss, two bytes apart
OutSymbols(scope) ==
    << [MkSymbol(Name.i, 4, None, 0, "Unknown", {"Global"}) EXCEPT !.size_known = FALSE],
       MkSymbol(Name.e, 8, Some(1), 8, "Object", {"Local"}),
       MkSymbol(Name.foo, 16, Some(2), 4, "Object", {"Global"}),
       MkSymbol(Name.bar, 20, Some(2), 4, "Object", {"Global"}),
       MkSymbol(Name.baz, 28, Some(3), 4, "Object", {scope}),
       MkSymbol(Name.qux, 24, Some(3), 2, "Object", {"Global"}) >>

\* every section has a split of its own at its start, the one of .data asks
\* for an alignment of 32; sp is one more split or None, stray a split below
\* the sections; the link order names both units
InitSplitOut ==
    /\ \E sp \in {None} \cup [addr : {20, 26, 27, 28}, unit : {1, 2}, common : BOOLEAN,
                              align : {None, Some(1), Some(2), Some(32)}] :
       \E ub \in {1, 2}, cb \in BOOLEAN, e24 \in {0, 28} :
       \E target \in 0..5, stray \in BOOLEAN, scope \in {"Global", "Common"} :
          /\ target \in {0, 1, 4, 5}
          /\ stray => target = 1
          /\ obj = [MkImage(OutSections(target), OutSymbols(scope),
                            [a \in {8, 16, 24} \cup (IF stray THEN {4} ELSE {})
                                    \cup (IF sp = None THEN {} ELSE {sp.addr}) |->
                                CASE a = 4 -> <<OutSplit(2, 0, None, FALSE)>>
                                  [] a = 8 -> <<OutSplit(1, 0, None, FALSE)>>
                                  [] a = 16 -> <<OutSplit(1, 0, Some(32), FALSE)>>
                                  [] a = 24 -> <<OutSplit(ub, e24, None, cb)>>
                                  [] OTHER -> <<OutSplit(sp.unit, 0, sp.align, sp.common)>>])
                       EXCEPT !.link_order =
                                 [k \in 1..2 |-> [name |-> UnitNames[k], autogenerated |-> FALSE,
                                                  comment_version |-> None]]]
    /\ pc = "split_call"
    /\ loc = [section_idx |-> 0]
    /\ res = [ok |-> FALSE, err |-> ""]
    /\ objects = <<>>
    /\ text = <<>>

SpecSplitOut == InitSplitOut /\ [][split_obj]_vars

-----------------------------------------------------------------------------
(* C21: the alignment of the output sections *)

\* the alignment asked for: the split's own, or 4 for code and for the table
\* sections and .sbss, or 8
RequestedAlign(split, section) ==
    IF split.align # None THEN split.align[1]
    ELSE IF section.kind = "Code" THEN 4
    ELSE IF section.name \in {<<".","c","t","o","r","s">>, <<".","d","t","o","r","s">>,
                              <<"e","x","t","a","b">>, <<".","s","b","s","s">>,
                              <<"e","x","t","a","b","i","n","d","e","x">>} THEN 4
    ELSE 8

\* r, r/2, r/4, ... down to 4 (r itself when r < 4)
Halvings(r) == {d \in 1..r : r % d = 0 /\ (d >= 4 \/ d = r)}

\* the start address a is a multiple of 4, or of r when r < 4
StartAligned(a, r) == IF r < 4 THEN a % r = 0 ELSE a % 4 = 0

\* C21: every output section split_obj creates from a non-common split with
\* requested alignment r starts at a multiple of 4 (of r when r < 4), its align is the
\* largest of r, r/2, r/4, ... down to 4 that divides the split's start and
\* divides that start; a non-common split that starts elsewhere stops split_obj
\* with an alignment error when the walk reaches it, and no other non-common
\* split does.
C21_AlignHalved ==
    /\ \A k \in 1..Len(objects) : \A s \in 1..Len(objects[k].sections) :
          \E out \in {objects[k].sections[s]} :
          \E r \in {RequestedAlign(obj.splits[out.original_address][1],
                                   obj.sections[section_at(obj, out.original_address)[1]])} :
             /\ StartAligned(out.original_address, r)
             /\ out.align \in Halvings(r)
             /\ out.original_address % out.align = 0
             /\ \A d \in Halvings(r) : out.original_address % d = 0 => d <= out.align
    /\ \A i \in 1..Len(obj.sections) :
       \A a \in DOMAIN obj.splits :
          (/\ obj.sections[i].address <= a /\ a < end_for_section(obj, i)
           /\ ~obj.splits[a][1].common
           /\ ~StartAligned(a, RequestedAlign(obj.splits[a][1], obj.sections[i])))
          => \/ pc = "split_call"
             \/ pc = "split_for" /\ loc.section_idx <= i
             \/ pc = "split_loop" /\ loc.section_idx < i
             \/ pc = "split_loop" /\ loc.section_idx = i /\ loc.current_address <= a
             \/ pc = "failed" /\ res.err = "Invalid alignment for split"
                              /\ loc.section_idx = i /\ loc.current_address = a
    /\ (pc = "failed" /\ res.err = "Invalid alignment for split"
                       /\ ~obj.splits[loc.current_address][1].common)
       => ~StartAligned(loc.current_address,
                        RequestedAlign(obj.splits[loc.current_address][1],
                                       obj.sections[loc.section_idx]))

\* C21 witness: split_obj succeeded; the split of .data at 16 asked for 32 and
\* its section got 16, the one at 20 asked for 32 and got 4
C21_Witness ==
    /\ pc = "done"
    /\ 20 \in DOMAIN obj.splits
    /\ obj.splits[20][1].align = Some(32) /\ ~obj.splits[20][1].common
    /\ \E k \in 1..Len(objects) : \E s \in 1..Len(objects[k].sections) :
          objects[k].sections[s].original_address = 20 /\ objects[k].sections[s].align = 4
    /\ \E k \in 1..Len(objects) : \E s \in 1..Len(objects[k].sections) :
          objects[k].sections[s].original_address = 16 /\ objects[k].sections[s].align = 16

-----------------------------------------------------------------------------
(* C22: the symbols of common splits *)

\* the walk over the sections is over
WalkDone ==
    \/ pc \in {"globalize", "extern", "done"}
    \/ pc = "split_for" /\ loc.section_idx > Len(obj.sections)

\* the common splits inside the sections: <<section index, start>>
CommonSplits(o) ==
    {x \in (1..Len(o.sections)) \X DOMAIN o.splits :
        /\ o.sections[x[1]].address <= x[2] /\ x[2] < end_for_section(o, x[1])
        /\ o.splits[x[2]][1].common}

\* where the split at a of section i ends for split_obj: at the next split of
\* the section or at end_for_section
ExtentEnd(o, i, a) ==
    LET stops == {b \in DOMAIN o.splits : a < b /\ b < end_for_section(o, i)}
                    \cup {end_for_section(o, i)}
    IN  CHOOSE m \in stops : \A b \in stops : m <= b

\* "{n:010X}"
Hex10(n) ==
    [k \in 1..10 |->
        IF k <= 2 THEN "0"
        ELSE <<"0","1","2","3","4","5","6","7","8","9","A","B","C","D","E","F">>
                [((n \div (16 ^ (10 - k))) % 16) + 1]]

\* the cursor before the j-th symbol of a common split starting at a
Cursor(o, a, syms, j) ==
    IF j = 1 THEN a
    ELSE o.symbols[syms[j - 1]].address + o.symbols[syms[j - 1]].size

\* the pad symbol the claim describes
IsPad(symbol, cursor, gap) ==
    /\ symbol.name = <<"p","a","d","_">> \o Hex10(cursor)
    /\ symbol.size = gap /\ symbol.kind = "Object" /\ symbol.flags = {"Common"}

\* the index of the object of a unit
ObjectOf(unit) == CHOOSE k \in 1..Len(objects) : objects[k].name = unit

RECURSIVE SumSizes(_, _)
SumSizes(symbols, P) ==
    IF P = {} THEN 0
    ELSE LET p == CHOOSE x \in P : TRUE IN symbols[p].size + SumSizes(symbols, P \ {p})

\* C22: once the walk is over, for every common split (its symbols do not
\* overlap and are visited by address) the object of its unit holds, right
\* before each symbol that starts after the cursor, one Common Object symbol
\* "pad_{cursor:010X}" whose size is the gap, and no pad before any other
\* symbol; the sizes of the pads and symbols of the split sum to the distance
\* from the split's start to the end of its last symbol; every symbol of the
\* split has no section, address 4, the Common flag alone and alignment 4.
C22_CommonPads ==
    WalkDone =>
    \A x \in CommonSplits(obj) :
       LET a == x[2]
           syms == symbols_for_range(obj, a, ExtentEnd(obj, x[1], a))
           k == ObjectOf(obj.splits[a][1].unit)
           out == objects[k].symbols
           pos(j) == loc.object_symbols[k][syms[j]][1]
           gap(j) == obj.symbols[syms[j]].address - Cursor(obj, a, syms, j)
           padded == {j \in 1..Len(syms) : gap(j) > 0}
       IN  /\ \A j \in 1..Len(syms) :
                /\ loc.object_symbols[k][syms[j]] # None
                /\ out[pos(j)].section = None /\ out[pos(j)].address = 4
                /\ out[pos(j)].flags = {"Common"} /\ out[pos(j)].align = Some(4)
                /\ out[pos(j)].size = obj.symbols[syms[j]].size
                /\ j \in padded =>
                      /\ pos(j) > 1
                      /\ IsPad(out[pos(j) - 1], Cursor(obj, a, syms, j), gap(j))
                /\ j \notin padded =>
                      \/ pos(j) = 1
                      \/ Len(out[pos(j) - 1].name) < 4
                      \/ SubSeq(out[pos(j) - 1].name, 1, 4) # <<"p","a","d","_">>
           /\ syms # <<>> =>
                 SumSizes(out, {pos(j) : j \in 1..Len(syms)} \cup {pos(j) - 1 : j \in padded})
                    = obj.symbols[syms[Len(syms)]].address
                         + obj.symbols[syms[Len(syms)]].size - a

\* C22 witness: split_obj succeeded on an image whose .bss is one common split
\* [24, 32) holding qux [24, 26) and baz [28, 32): its object got the pad
\* pad_000000001A of size 2 between them
C22_Witness ==
    /\ pc = "done"
    /\ obj.splits[24][1].common
    /\ DOMAIN obj.splits = {8, 16, 24}
    /\ \E k \in 1..Len(objects) : \E p \in 2..(Len(objects[k].symbols) - 1) :
          /\ objects[k].symbols[p].name = <<"p","a","d","_","0","0","0","0","0","0","0","0","1","A">>
          /\ objects[k].symbols[p].size = 2
          /\ objects[k].symbols[p - 1].name = Name.qux
          /\ objects[k].symbols[p + 1].name = Name.baz
          /\ objects[k].symbols[p + 1].flags = {"Common"}

-----------------------------------------------------------------------------
(* C23: extern targets of extabindex relocations *)

\* the unit that owns address x: the one of the last split of x's section that
\* starts at or before x
OwnerUnit(o, x) ==
    LET i == section_at(o, x)
        starts == {b \in DOMAIN o.splits : o.sections[i[1]].address <= b /\ b <= x}
    IN  IF i = None \/ starts = {} THEN None
        ELSE Some(o.splits[CHOOSE m \in starts : \A b \in starts : b <= m][1].unit)

\* the relocations of extabindex whose target is not owned by the unit that
\* owns the relocation
TabExterns(o) ==
    UNION {{o.sections[i].relocations[r] : r \in {q \in 1..Len(o.sections[i].relocations) :
               OwnerUnit(o, o.sections[i].relocations[q].address) #
               OwnerUnit(o, o.symbols[o.sections[i].relocations[q].target_symbol].address)}} :
           i \in {j \in 1..Len(o.sections) :
                     o.sections[j].name = <<"e","x","t","a","b","i","n","d","e","x">>}}

\* split_for finds a split for the target's address, and a section holds the
\* address that split starts at
Located(o, reloc) ==
    /\ split_for(o, o.symbols[reloc.target_symbol].address) # None
    /\ section_at(o, split_for(o, o.symbols[reloc.target_symbol].address)[1][1]) # None

TabErrors == {"Bad extabindex relocation", "Failed to locate section"}

\* the relocation of the image an output relocation was made from
InputReloc(o, out_section, reloc) ==
    CHOOSE x \in UNION {SeqToSet(o.sections[i].relocations) : i \in 1..Len(o.sections)} :
        x.address = out_section.original_address + reloc.address

\* C23 (as claimed): split_obj never fails because a relocation target was
\* externalised in connection with extabindex.
C23_ExternTabNeverFails == pc = "failed" => res.err \notin TabErrors

\* C23 (amended): externalising the target of an extabindex relocation only
\* produces a diagnostic when split_for finds a split for the target's address
\* and a section holds that split's start: split_obj then does not fail because
\* of it, processes every remaining relocation and returns one object per unit
\* of the link order; when no such split or section is found split_obj fails
\* and returns no objects.
C23_ExternTabLocated ==
    /\ pc \in {"globalize", "extern", "done"} =>
          \A e \in TabExterns(obj) : Located(obj, e)
    /\ (pc = "failed" /\ res.err \in TabErrors) =>
          /\ ~res.ok
          /\ \E e \in TabExterns(obj) : ~Located(obj, e)
    /\ pc = "done" =>
          /\ res.ok
          /\ Len(objects) = Len(obj.link_order)
          /\ \A k \in 1..Len(objects) : \A n \in 1..Len(objects[k].sections) :
             \A r \in 1..Len(objects[k].sections[n].relocations) :
                LET reloc == objects[k].sections[n].relocations[r]
                IN  /\ reloc.target_symbol \in 1..Len(objects[k].symbols)
                    /\ objects[k].symbols[reloc.target_symbol].name =
                          obj.symbols[InputReloc(obj, objects[k].sections[n],
                                                 reloc).target_symbol].name

\* C23 witness: split_obj succeeded although the index record at 8, owned by
\* U, points to bar, owned by V: U's object got a stub for bar, and the
\* relocation at 12 was processed after it
C23_Witness ==
    /\ pc = "done" /\ res.ok
    /\ \E e \in TabExterns(obj) : e.address = 8 /\ obj.symbols[e.target_symbol].name = Name.bar
    /\ \E k \in {ObjectOf(Name.U)} :
          /\ Len(objects[k].sections[1].relocations) = 2
          /\ objects[k].symbols[objects[k].sections[1].relocations[1].target_symbol]
                = ExternStub(obj.symbols[4])
          /\ objects[k].symbols[objects[k].sections[1].relocations[2].target_symbol].name
                = Name.foo

-----------------------------------------------------------------------------
(* end_for_section applied to each section of an image *)

\* .data [0, 12) and .ctors [12, 20)
EndSections(terminator) ==
    << MkSection(Name.data, "Data", 0, <<1, 1, 1>>),
       MkSection(Name.ctors, "Data", 12, <<1, terminator>>) >>

\* the symbol a word of the image holds, by shape: an object with a name of
\* its own, a linker-generated object, one of unknown size, or a function
\* with the name of one
EndSymbol(address, shape) ==
    LET gen == CASE address = 0 -> Name.rom_copy_info
                 [] address = 4 -> Name.bss_init_info
                 [] address = 8 -> Name.eti_init_info
                 [] address = 12 -> Name.dtors99
                 [] OTHER -> Name.ctors99
        section == Some(IF address < 12 THEN 1 ELSE 2)
    IN  CASE shape = "plain" -> MkSymbol(Name.foo, address, section, 4, "Object", {"Global"})
          [] shape = "gen" -> MkSymbol(gen, address, section, 4, "Object", {"Global"})
          [] shape = "gen_unsized" ->
                [MkSymbol(gen, address, section, 0, "Object", {"Global"})
                    EXCEPT !.size_known = FALSE]
          [] OTHER -> MkSymbol(gen, address, section, 4, "Function", {"Global"})

InitEnd ==
    /\ \E terminator \in {0, 1} :
       \E shape \in [{0, 4, 8, 12, 16} -> {"none", "plain", "gen", "gen_unsized", "gen_fn"}] :
          /\ shape[12] \in {"none", "plain", "gen"}
          /\ shape[16] \in {"none", "gen"}
          /\ obj = MkImage(EndSections(terminator),
                           [k \in 1..Len(SelectSeq(<<0, 4, 8, 12, 16>>,
                                                   LAMBDA a : shape[a] # "none")) |->
                               EndSymbol(SelectSeq(<<0, 4, 8, 12, 16>>,
                                                   LAMBDA a : shape[a] # "none")[k],
                                         shape[SelectSeq(<<0, 4, 8, 12, 16>>,
                                                         LAMBDA a : shape[a] # "none")[k]])],
                           EmptyMap)
    /\ pc = "end_call"
    /\ loc = [section_idx |-> 1, section_end |-> <<>>]
    /\ res = [ok |-> FALSE, err |-> ""]
    /\ objects = <<>>
    /\ text = <<>>

\* let section_end = end_for_section(obj, section_idx)?; for the next section
EndCall ==
    /\ pc = "end_call"
    /\ loc' = [section_idx |-> loc.section_idx + 1,
               section_end |-> Append(loc.section_end, end_for_section(obj, loc.section_idx))]
    /\ pc' = IF loc.section_idx = Len(obj.sections) THEN "done" ELSE "end_call"
    /\ res' = [ok |-> loc.section_idx = Len(obj.sections), err |-> ""]
    /\ UNCHANGED <<obj, objects, text>>

SpecEnd == InitEnd /\ [][EndCall]_vars

-----------------------------------------------------------------------------
(* C24: the end of a section *)

\* Object symbols with known positive size in [lo, hi), as indices
SizedObjects(o, lo, hi) ==
    {i \in 1..Len(o.symbols) :
        /\ lo <= o.symbols[i].address /\ o.symbols[i].address < hi
        /\ o.symbols[i].kind = "Object" /\ o.symbols[i].size_known /\ o.symbols[i].size > 0}

GeneratedObjectNames ==
    {<<"_","e","t","i","_","i","n","i","t","_","i","n","f","o">>,
     <<"_","r","o","m","_","c","o","p","y","_","i","n","f","o">>,
     <<"_","b","s","s","_","i","n","i","t","_","i","n","f","o">>,
     <<"_","c","t","o","r","s","$","9","9">>, <<"_","d","t","o","r","s","$","9","9">>}

\* where the repeated lowering stops (the symbols have addresses of their own):
\* the lowest of the section's end and the addresses of its sized objects from
\* which on every sized object of the section has a linker-generated name
LoweredEnd(o, i) ==
    LET lo == o.sections[i].address
        hi == o.sections[i].address + o.sections[i].size
        stops == {x \in {hi} \cup {o.symbols[n].address : n \in SizedObjects(o, lo, hi)} :
                     \A n \in SizedObjects(o, x, hi) : o.symbols[n].name \in GeneratedObjectNames}
    IN  CHOOSE x \in stops : \A y \in stops : x <= y

\* C24: end_for_section returns section_end - 4 for a .ctors or .dtors section
\* whose last word is zero, and otherwise the end reached by lowering
\* section_end to the address of the last sized Object symbol below it as long
\* as that symbol has a linker-generated-object name; the result lies in
\* [section_start, section_start + size].
C24_EndForSection ==
    \A i \in 1..Len(loc.section_end) :
       LET section == obj.sections[i]
       IN  /\ section.address <= loc.section_end[i]
           /\ loc.section_end[i] <= section.address + section.size
           /\ IF /\ section.name \in {<<".","c","t","o","r","s">>, <<".","d","t","o","r","s">>}
                 /\ section.data[Len(section.data)] = 0
              THEN loc.section_end[i] = section.address + section.size - 4
              ELSE loc.section_end[i] = LoweredEnd(obj, i)

\* C24 witness: .data holds foo, _bss_init_info and _eti_init_info and ends at
\* 4 after two lowerings; .ctors ends in a zero word and ends at 16
C24_Witness ==
    /\ pc = "done"
    /\ loc.section_end = <<4, 16>>
    /\ obj.sections[2].data[2] = 0
    /\ \E a, b, c \in 1..Len(obj.symbols) :
          /\ obj.symbols[a].name = Name.foo /\ obj.symbols[a].address = 0
          /\ obj.symbols[b].name = Name.bss_init_info /\ obj.symbols[b].kind = "Object"
          /\ obj.symbols[b].size = 4
          /\ obj.symbols[c].name = Name.eti_init_info /\ obj.symbols[c].kind = "Object"
          /\ obj.symbols[c].size = 4

-----------------------------------------------------------------------------
(* parse_symbol_line applied to lines written by hand *)

\* the attributes of the lines: a type, a size of 4 or of 0, hidden, noreloc
LineWords ==
    {Attr(Str.type, symbol_kind_to_str("Object")), Attr(Str.size, FormatHexAlt(4)),
     Attr(Str.size, FormatHexAlt(0)), Str.hidden, Str.noreloc}

\* one line "foo = .data:0x0000000{8,C}; // attrs" with up to three different
\* attributes in any order, at most one of them a size, read into an image
\* without symbols and blocked ranges
InitSymLine ==
    /\ \E address \in {8, 12} :
       \E n \in 0..3 :
       \E attrs \in [1..n -> LineWords] :
          /\ \A j, k \in 1..n : j # k => attrs[j] # attrs[k]
          /\ ~(Attr(Str.size, FormatHexAlt(4)) \in SeqToSet(attrs)
               /\ Attr(Str.size, FormatHexAlt(0)) \in SeqToSet(attrs))
          /\ text = << [name |-> Name.foo, section |-> Some(Name.data),
                        addr |-> <<"0", "x">> \o ZeroPad(HexDigits(address), 8),
                        attrs |-> attrs] >>
    /\ obj = MkImage(SymSections, <<>>, EmptyMap)
    /\ pc = "parse_line"
    /\ loc = [next |-> 1, read |-> MkImage(SymSections, <<>>, EmptyMap)]
    /\ res = [ok |-> FALSE, err |-> ""]
    /\ objects = <<>>

SpecSymLine == InitSymLine /\ [][ParseLine \/ ParseDone]_vars

-----------------------------------------------------------------------------
(* C25: noreloc and the size of the symbol *)

\* the line was read, or refused
LineRead == pc = "failed" \/ loc.next > 1

\* the address the line names
LineAddress == IF text[1].addr[10] = "8" THEN 8 ELSE 12

\* C25 (as claimed): a line that carries noreloc and, anywhere on the line, a
\* size attribute with a nonzero value is read successfully and adds exactly
\* [addr, addr + size) to the blocked ranges; a line that carries noreloc and
\* no size, or size 0, is refused and leaves the blocked ranges unchanged.
C25_NorelocAnyOrder ==
    (LineRead /\ <<"n","o","r","e","l","o","c">> \in SeqToSet(text[1].attrs)) =>
        IF <<"s","i","z","e",":","0","x","4">> \in SeqToSet(text[1].attrs)
        THEN /\ pc # "failed"
             /\ loc.read.blocked_ranges = (LineAddress :> (LineAddress + 4))
        ELSE /\ pc = "failed"
             /\ loc.read.blocked_ranges = obj.blocked_ranges

-----------------------------------------------------------------------------
(* asm.rs: write_asm, up to the check of the common symbols *)

\* A code section holds its instructions decoded, one per word, as ppc750cl
\* gives them: the opcode ("B", "Bc" or another), the AA field and the branch
\* displacement. The lines write_asm prints are not part of the state.

\* Ins::branch_dest: the target of a branch, absolute when AA is set
branch_dest(ins, addr) ==
    IF ins.op \in {"B", "Bc"} THEN Some(IF ins.aa THEN ins.disp ELSE addr + ins.disp)
    ELSE None

\* NestedVec::nested_push
nested_push(m, k, v) == MapPut(m, k, IF k \in DOMAIN m THEN Append(m[k], v) ELSE <<v>>)

\* for (symbol_index, symbol) in obj.symbols.for_section(section): the Start
\* and End entries of the section's symbols
RECURSIVE SymbolEntries(_, _, _)
SymbolEntries(o, syms, entries) ==
    IF syms = <<>> THEN entries
    ELSE LET symbol == o.symbols[Head(syms)]
             started == nested_push(entries, symbol.address,
                                    [index |-> Head(syms), kind |-> "Start"])
         IN  SymbolEntries(o, Tail(syms),
                 IF symbol.size > 0
                 THEN nested_push(started, symbol.address + symbol.size,
                                  [index |-> Head(syms), kind |-> "End"])
                 ELSE started)

\* LabelSymbol named by the address inside the section
LabelSymbol_SectionRelative(address, section, section_idx) ==
    [DefaultSymbol EXCEPT !.name = <<".","L","_">> \o FormatHex08(address),
                          !.address = address,
                          !.section = Some(section_idx), !.size_known = TRUE]

\* ObjSymbol { name: format!(".L_{display_address:08X}"), address: display_address,
\* section: Some(section_idx), size_known: true, ..Default::default() }
LabelSymbol(address, section, section_idx) ==
    [DefaultSymbol EXCEPT !.name = <<".","L","_">> \o FormatHex08(address + section.original_address),
                          !.address = address + section.original_address,
                          !.section = Some(section_idx), !.size_known = TRUE]

\* the Label entry at an address, else the Start entry, else None
LabelOrStart(vec) ==
    IF SelectSeq(vec, LAMBDA e : e.kind = "Label") # <<>>
    THEN Some(SelectSeq(vec, LAMBDA e : e.kind = "Label")[1].index)
    ELSE IF SelectSeq(vec, LAMBDA e : e.kind = "Start") # <<>>
    THEN Some(SelectSeq(vec, LAMBDA e : e.kind = "Start")[1].index)
    ELSE None

\* the body of "for ins in disasm_iter(..)" for the instruction at addr; st is
\* [symbols, entries, relocations]
BranchStep(st, section, section_idx, addr) ==
    LET ins == section.data[((addr - section.address) \div 4) + 1]
        address == branch_dest(ins, addr)
        vec == IF address[1] \in DOMAIN st.entries THEN st.entries[address[1]] ELSE <<>>
        target_symbol_idx == LabelOrStart(vec)
    IN  IF address = None THEN st
        ELSE IF ins.aa \/ ~SectionContains(section, address[1]) THEN st
        ELSE IF addr \in DOMAIN st.relocations /\ st.relocations[addr].addend = 0 THEN st
        ELSE [symbols |-> IF target_symbol_idx = None
                          THEN Append(st.symbols, LabelSymbol(address[1], section, section_idx))
                          ELSE st.symbols,
              entries |-> MapPut(st.entries, address[1],
                                 IF target_symbol_idx = None
                                 THEN Append(vec, [index |-> Len(st.symbols) + 1, kind |-> "Label"])
                                 ELSE vec),
              relocations |-> MapPut(st.relocations, addr,
                                 [kind |-> IF ins.op = "B" THEN "PpcRel24" ELSE "PpcRel14",
                                  address |-> addr,
                                  target_symbol |-> IF target_symbol_idx = None
                                                    THEN Len(st.symbols) + 1
                                                    ELSE target_symbol_idx[1],
                                  addend |-> 0])]

RECURSIVE BranchScan(_, _, _, _)
BranchScan(st, section, section_idx, addr) ==
    IF addr >= section.address + section.size THEN st
    ELSE BranchScan(BranchStep(st, section, section_idx, addr), section, section_idx, addr + 4)

\* the body of "for reloc in &section.relocations" of the jump-table pass; st
\* is [symbols, section_entries]
DataLabelStep(o, st, reloc) ==
    LET target == st.symbols[reloc.target_symbol]
        address == target.address + reloc.addend
        entries == st.section_entries[target.section[1]]
        vec == IF address \in DOMAIN entries THEN entries[address] ELSE <<>>
    IN  IF reloc.addend = 0 \/ target.section = None THEN st
        ELSE IF LabelOrStart(vec) # None
        THEN [st EXCEPT !.section_entries[target.section[1]] = MapPut(entries, address, vec)]
        ELSE [symbols |-> Append(st.symbols, LabelSymbol(address, o.sections[target.section[1]],
                                                         target.section[1])),
              section_entries |-> [st.section_entries EXCEPT ![target.section[1]] =
                  MapPut(entries, address,
                         Append(vec, [index |-> Len(st.symbols) + 1, kind |-> "Label"]))]]

RECURSIVE DataLabelScan(_, _, _)
DataLabelScan(o, st, relocs) ==
    IF relocs = <<>> THEN st
    ELSE DataLabelScan(o, DataLabelStep(o, st, Head(relocs)), Tail(relocs))

\* let mut symbols = obj.symbols.iter().cloned().collect(); section_entries and
\* section_relocations start empty
AsmCall ==
    /\ pc = "asm_call"
    /\ loc' = [section_idx |-> 1, symbols |-> obj.symbols, section_entries |-> <<>>,
               section_relocations |-> <<>>]
    /\ pc' = "asm_section"
    /\ UNCHANGED <<obj, res, objects, text>>

\* for (section_idx, section) in obj.sections.iter().enumerate(): the entries
\* and relocations of one section, with the jump labels of a code section
AsmSection ==
    /\ pc = "asm_section"
    /\ loc.section_idx <= Len(obj.sections)
    /\ \E section \in {obj.sections[loc.section_idx]} :
       \E st0 \in {[symbols |-> loc.symbols,
                    entries |-> SymbolEntries(obj,
                        SelectSeq(all_symbols(obj),
                                  LAMBDA i : obj.symbols[i].section = Some(loc.section_idx)),
                        EmptyMap),
                    relocations |-> [a \in {section.relocations[r].address :
                                               r \in 1..Len(section.relocations)} |->
                        section.relocations[CHOOSE r \in 1..Len(section.relocations) :
                                               section.relocations[r].address = a]]]} :
       \E st \in {IF section.kind = "Code"
                  THEN BranchScan(st0, section, loc.section_idx, section.address)
                  ELSE st0} :
          loc' = [section_idx |-> loc.section_idx + 1,
                  symbols |-> st.symbols,
                  section_entries |-> Append(loc.section_entries, st.entries),
                  section_relocations |-> Append(loc.section_relocations, st.relocations)]
    /\ UNCHANGED <<obj, pc, res, objects, text>>

\* // Generate labels for jump tables & relative data relocations
AsmDataLabels ==
    /\ pc = "asm_section"
    /\ loc.section_idx > Len(obj.sections)
    /\ \E st \in {DataLabelScan(obj,
                     [symbols |-> loc.symbols, section_entries |-> loc.section_entries],
                     Flatten([i \in 1..Len(obj.sections) |->
                        IF obj.sections[i].kind \in {"Data", "ReadOnlyData"}
                        THEN obj.sections[i].relocations ELSE <<>>]))} :
          loc' = [loc EXCEPT !.symbols = st.symbols, !.section_entries = st.section_entries]
    /\ pc' = "asm_common"
    /\ UNCHANGED <<obj, res, objects, text>>

\* ensure!(symbol.section.is_none(), "Invalid: common symbol with section {:?}")
\* for every common symbol
CommonSymbolsOk(symbols) ==
    \A i \in 1..Len(symbols) : "Common" \in symbols[i].flags => symbols[i].section = None

\* // Write common symbols, and the sections after them
AsmCommon ==
    /\ pc = "asm_common"
    /\ IF CommonSymbolsOk(loc.symbols)
       THEN pc' = "done" /\ res' = [ok |-> TRUE, err |-> ""]
       ELSE Fail("Invalid: common symbol with section")
    /\ UNCHANGED <<obj, loc, objects, text>>

write_asm == AsmCall \/ AsmSection \/ AsmDataLabels \/ AsmCommon

-----------------------------------------------------------------------------
(* The objects write_asm is run on *)

\* the instruction of a word, by shape: <<opcode, AA, displacement>>
AsmIns(shape) == [op |-> shape[1], aa |-> shape[2], disp |-> shape[3]]

\* .text [0, 12) of a split object (the section stood at 32 in the image) with
\* branches in its first two words and a relocation r0 at its first word (0:
\* none, else its addend + 1); .data [12, 20) with a relocation to foo + addend
AsmSections(i0, i1, r0, addend) ==
    << [name |-> Name.text, kind |-> "Code", address |-> 0, size |-> 12,
        data |-> <<AsmIns(i0), AsmIns(i1), AsmIns(<<"Other", FALSE, 0>>)>>,
        relocations |-> IF r0 = 0 THEN <<>>
                        ELSE << [kind |-> "PpcRel24", address |-> 0, target_symbol |-> 2,
                                 addend |-> r0 - 1] >>,
        original_address |-> 32, index |-> 1, file_offset |-> 0],
       [name |-> Name.data, kind |-> "Data", address |-> 12, size |-> 8,
        data |-> <<1, 1>>,
        relocations |-> << [kind |-> "Absolute", address |-> 12, target_symbol |-> 1,
                            addend |-> addend] >>,
        original_address |-> 0, index |-> 2, file_offset |-> 12] >>

\* foo at 0 of size 8 or 12, an extern symbol, and bar at 8 (bar 0: no bar;
\* 1: Local; 2: with the Common flag split_obj copied from the image)
AsmSymbols(size, bar) ==
    << MkSymbol(Name.foo, 0, Some(1), size, "Function", {"Global"}),
       [DefaultSymbol EXCEPT !.name = Name.baz] >>
    \o (IF bar = 0 THEN <<>>
        ELSE << MkSymbol(Name.bar, 8, Some(1), 0, "Unknown",
                         IF bar = 1 THEN {"Local"} ELSE {"Common"}) >>)

InitAsm ==
    /\ \E i0 \in {<<"Other", FALSE, 0>>, <<"B", FALSE, 8>>, <<"B", FALSE, 4>>,
                  <<"Bc", FALSE, 8>>, <<"B", TRUE, 8>>, <<"B", FALSE, 16>>} :
       \E i1 \in {<<"Other", FALSE, 0>>, <<"Bc", FALSE, -4>>, <<"B", FALSE, 4>>} :
       \E r0 \in {0, 1, 5} :
       \E addend \in {0, 4, 8} :
       \E size \in {8, 12} :
       \E bar \in 0..2 :
          obj = [MkImage(AsmSections(i0, i1, r0, addend), AsmSymbols(size, bar), EmptyMap)
                    EXCEPT !.kind = "Relocatable"]
    /\ pc = "asm_call"
    /\ loc = [section_idx |-> 0]
    /\ res = [ok |-> FALSE, err |-> ""]
    /\ objects = <<>>
    /\ text = <<>>

SpecAsm == InitAsm /\ [][write_asm]_vars

-----------------------------------------------------------------------------
(* C26: the relocations write_asm injects at branches *)

\* the addresses of the PC-relative branches of .text whose target lies in the
\* section
Branches(o) ==
    {a \in {0, 4, 8} : /\ o.sections[1].data[(a \div 4) + 1].op \in {"B", "Bc"}
                       /\ ~o.sections[1].data[(a \div 4) + 1].aa
                       /\ a + o.sections[1].data[(a \div 4) + 1].disp \in 0..11}

\* where the branch at a goes
BranchTarget(o, a) == a + o.sections[1].data[(a \div 4) + 1].disp

\* the relocations the object holds at address a of .text
RelocsAt(o, a) ==
    {o.sections[1].relocations[r] : r \in {q \in 1..Len(o.sections[1].relocations) :
                                             o.sections[1].relocations[q].address = a}}

\* the relocation write_asm holds at a is a synthetic one: of the kind of the
\* branch, addend 0, to the symbol of a Label or Start entry at the target,
\* which is a symbol of the object that starts there or else one new label
\* ".L_{addr:08X}", addr the target's address in the image
Synthetic(o, a) ==
    LET reloc == loc.section_relocations[1][a]
        t == reloc.target_symbol
        dest == BranchTarget(o, a)
        starts == {i \in 1..Len(o.symbols) :
                      o.symbols[i].section = <<1>> /\ o.symbols[i].address = dest}
    IN  /\ a \in DOMAIN loc.section_relocations[1]
        /\ reloc.kind = (IF o.sections[1].data[(a \div 4) + 1].op = "B"
                         THEN "PpcRel24" ELSE "PpcRel14")
        /\ reloc.addend = 0 /\ reloc.address = a
        /\ dest \in DOMAIN loc.section_entries[1]
        /\ \E e \in SeqToSet(loc.section_entries[1][dest]) :
              e.index = t /\ e.kind \in {"Label", "Start"}
        /\ IF starts # {} THEN t \in starts
           ELSE /\ t > Len(o.symbols)
                /\ loc.symbols[t].name =
                      <<".","L","_">> \o SubSeq(Hex10(dest + o.sections[1].original_address), 3, 10)
                /\ loc.symbols[t].section = <<1>>
                /\ \A b \in Branches(o) :
                      (BranchTarget(o, b) = dest /\ RelocsAt(o, b) = {})
                         => loc.section_relocations[1][b].target_symbol = t

\* C26 (as claimed): once the entries of the code section are built, every
\* PC-relative branch into the section that is not covered by a relocation
\* with a nonzero addend holds a synthetic relocation, and a branch covered by
\* a relocation with a nonzero addend keeps that relocation.
C26_NonzeroAddendKept ==
    (pc # "asm_call" /\ Len(loc.section_relocations) >= 1) =>
       \A a \in Branches(obj) :
          IF \E r \in RelocsAt(obj, a) : r.addend # 0
          THEN loc.section_relocations[1][a] \in RelocsAt(obj, a)
          ELSE Synthetic(obj, a)

\* C26 (amended): once the entries of the code section are built, every
\* PC-relative branch into the section that is not covered by a relocation
\* with addend zero holds a synthetic relocation (one with a nonzero addend is
\* replaced), and a branch covered by a relocation with addend zero keeps that
\* relocation.
C26_ZeroAddendKept ==
    (pc # "asm_call" /\ Len(loc.section_relocations) >= 1) =>
       \A a \in Branches(obj) :
          IF \E r \in RelocsAt(obj, a) : r.addend = 0
          THEN loc.section_relocations[1][a] \in RelocsAt(obj, a)
          ELSE Synthetic(obj, a)

\* C26 witness: the branch at 0 goes to 8, where no symbol starts, and is
\* covered by a relocation with addend 4: write_asm replaced it by a PpcRel24
\* to the new label .L_00000028, which the branch at 4 shares
C26_Witness ==
    /\ pc = "done"
    /\ \E r \in RelocsAt(obj, 0) : r.addend = 4
    /\ {0, 4} \subseteq Branches(obj)
    /\ loc.section_relocations[1][0].addend = 0
    /\ loc.section_relocations[1][0].kind = "PpcRel24"
    /\ loc.section_relocations[1][0].target_symbol > Len(obj.symbols)
    /\ loc.symbols[loc.section_relocations[1][0].target_symbol].name
          = <<".","L","_","0","0","0","0","0","0","2","8">>
    /\ loc.section_relocations[1][4].target_symbol
          = loc.section_relocations[1][0].target_symbol

-----------------------------------------------------------------------------
(* C27: create_gap_splits comes to an end *)

\* C27: every turn of the per-section loop of create_gap_splits that does not
\* leave the loop (by break or with an error) moves the running address
\* strictly forward, so the loop ends: also when the gap holds two equally
\* named symbols at one address.
C27_GapLoopAdvances ==
    [][(pc = "gap_loop" /\ pc' = "gap_loop")
          => loc'.current_address > loc.current_address]_vars

-----------------------------------------------------------------------------
(* C30: the common symbols of the objects split_obj returns *)

\* C30: in every object split_obj returns, every symbol that carries the
\* Common flag has no section, so that the check write_asm makes of the common
\* symbols passes on it: also for an input symbol of Common scope inside a
\* split that is not common.
C30_CommonHasNoSection ==
    (pc = "done" /\ res.ok) =>
        \A k \in 1..Len(objects) : CommonSymbolsOk(objects[k].symbols)

-----------------------------------------------------------------------------
(* C29: the bytes of the output sections *)

\* the output sections created from input section i: <<object, section>>
OutputsOf(i) ==
    {x \in UNION {{k} \X (1..Len(objects[k].sections)) : k \in 1..Len(objects)} :
        /\ obj.sections[i].address <= objects[x[1]].sections[x[2]].original_address
        /\ objects[x[1]].sections[x[2]].original_address < end_for_section(obj, i)}

\* the starts of the splits of input section i that are not common
PlainSplits(i) ==
    {a \in DOMAIN obj.splits :
        /\ obj.sections[i].address <= a /\ a < end_for_section(obj, i)
        /\ ~obj.splits[a][1].common}

\* the data of input section i over [lo, hi)
InputBytes(i, lo, hi) ==
    SubSeq(obj.sections[i].data, ((lo - obj.sections[i].address) \div 4) + 1,
           (hi - obj.sections[i].address) \div 4)

\* the buffers of the output sections of input section i that start at the
\* addresses addrs, one after the other
RECURSIVE OutputBytes(_, _)
OutputBytes(i, addrs) ==
    IF addrs = <<>> THEN <<>>
    ELSE LET x == CHOOSE y \in OutputsOf(i) :
                     objects[y[1]].sections[y[2]].original_address = Head(addrs)
         IN  objects[x[1]].sections[x[2]].data \o OutputBytes(i, Tail(addrs))

\* the input data over the splits that start at addrs, one after the other
RECURSIVE SplitBytes(_, _)
SplitBytes(i, addrs) ==
    IF addrs = <<>> THEN <<>>
    ELSE InputBytes(i, Head(addrs), ExtentEnd(obj, i, Head(addrs)))
            \o SplitBytes(i, Tail(addrs))

RECURSIVE SumOver(_, _)
SumOver(f, S) ==
    IF S = {} THEN 0 ELSE LET x == CHOOSE y \in S : TRUE IN f[x] + SumOver(f, S \ {x})

\* no two output sections of input section i start at one address, and their
\* sizes sum to the lengths of the splits of i that are not common
SizesAddUp(i) ==
    /\ \A x, y \in OutputsOf(i) :
          objects[x[1]].sections[x[2]].original_address
             = objects[y[1]].sections[y[2]].original_address => x = y
    /\ SumOver([x \in OutputsOf(i) |-> objects[x[1]].sections[x[2]].size], OutputsOf(i))
          = SumOver([a \in PlainSplits(i) |-> ExtentEnd(obj, i, a) - a], PlainSplits(i))

\* the start addresses of the output sections of input section i, ascending
OutputStarts(i) ==
    SortedSeq({objects[x[1]].sections[x[2]].original_address : x \in OutputsOf(i)})

\* C29 (as claimed): when split_obj has succeeded, for every input section that
\* is not BSS the buffers of its output sections, by address, make up the input
\* data over [section start, end_for_section), and for every input section the
\* sizes of its output sections sum to the lengths of its non-common splits.
C29_AllBytesKept ==
    (pc = "done" /\ res.ok) =>
        \A i \in 1..Len(obj.sections) :
            /\ obj.sections[i].kind # "Bss" =>
                  OutputBytes(i, OutputStarts(i))
                     = InputBytes(i, obj.sections[i].address, end_for_section(obj, i))
            /\ SizesAddUp(i)

\* C29 (amended): when split_obj has succeeded, for every input section that is
\* not BSS the buffers of its output sections, by address, make up the input
\* data over the splits of the section that are not common, each of them once
\* (a common split gets no output section, its bytes are in no output), and
\* for every input section the sizes of its output sections sum to the lengths
\* of its non-common splits.
C29_PlainBytesKept ==
    (pc = "done" /\ res.ok) =>
        \A i \in 1..Len(obj.sections) :
            /\ obj.sections[i].kind # "Bss" =>
                  OutputBytes(i, OutputStarts(i))
                     = SplitBytes(i, SortedSeq(PlainSplits(i)))
            /\ SizesAddUp(i)

\* C29 witness: split_obj succeeded on an image whose .data [16, 24) has a
\* plain split at 16 and a common one at 20: the only output section of .data
\* holds the first word, the second is in no output
C29_Witness ==
    /\ pc = "done" /\ res.ok
    /\ 20 \in DOMAIN obj.splits /\ obj.splits[20][1].common
    /\ OutputStarts(2) = <<16>>
    /\ OutputBytes(2, <<16>>) = <<7>>
    /\ OutputBytes(1, OutputStarts(1)) = <<5, 6>>

-----------------------------------------------------------------------------
(* split.rs: split_obj run on the image update_splits has left *)

\* update_splits returned Ok: the image goes to split_obj
UpdateThenSplit ==
    /\ pc = "done" /\ res.ok
    /\ "entry_splits" \in DOMAIN loc
    /\ pc' = "split_call"
    /\ loc' = [section_idx |-> 0]
    /\ res' = [ok |-> FALSE, err |-> ""]
    /\ UNCHANGED <<obj, objects, text>>

PipelineNext == UpdateNext \/ UpdateThenSplit \/ split_obj

SpecPipeline == InitUpdate /\ [][PipelineNext]_vars

-----------------------------------------------------------------------------
(* C28: split_obj after update_splits *)

\* split_obj is running or has ended
InSplitObj ==
    \/ pc \in {"split_call", "split_for", "split_loop", "globalize", "extern"}
    \/ pc \in {"done", "failed"} /\ "entry_splits" \notin DOMAIN loc
                                /\ "extabindex_new" \notin DOMAIN loc
                                /\ "new_splits" \notin DOMAIN loc

\* C28: split_obj run on an image update_splits succeeded on does not fail for
\* a gap between the splits ("Gap in files", "No file found") nor for a unit
\* missing in the link order: the resolved link order names the unit of every
\* split, and in every section the split intervals leave no address of
\* [section start, end_for_section) out.
C28_SplitAfterUpdate ==
    InSplitObj =>
        /\ pc = "failed" =>
              res.err \notin {"Gap in files", "No file found", "Unit not in link order"}
        /\ \A a \in DOMAIN obj.splits : \A k \in 1..Len(obj.splits[a]) :
              name_to_obj(obj.link_order, obj.splits[a][k].unit) # None
        /\ \A i \in 1..Len(obj.sections) :
              \A x \in obj.sections[i].address..(end_for_section(obj, i) - 1) :
                 Covering(obj, i, x) # {}

\* C28 witness: split_obj succeeded after update_splits had filled .bss, left
\* without a split by the user, with a gap split of its own unit: that unit
\* is in the link order and got the output section of .bss
C28_Witness ==
    /\ InSplitObj /\ pc = "done" /\ res.ok
    /\ 40 \in DOMAIN obj.splits /\ obj.splits[40][1].autogenerated
    /\ \E k \in 1..Len(objects) :
          /\ objects[k].name = obj.splits[40][1].unit
          /\ obj.link_order[k].name = objects[k].name
          /\ \E s \in 1..Len(objects[k].sections) :
                objects[k].sections[s].original_address = 40
                   /\ objects[k].sections[s].size = 8

====
